---- MODULE Spec2Model ----
(***************************************************************************)
(* A state-machine model of the disk-backed columnar storage engine        *)
(* (DiskManager, BufferPoolManager, BPlusTreeIndex, DiskBasedColumn,       *)
(* DiskBasedTable, LargeScaleDatabase).                                    *)
(*                                                                         *)
(* Scaling.  A page is a sequence of PAGE_SIZE cells; one cell stands for  *)
(* one scalar field of the source (a bool, an int32, a size_t, a PageId,   *)
(* one character of a string).  The source's 4096-byte page, 1000-page     *)
(* pool, order-128 tree and 256-byte string are scaled down so that page   *)
(* crossings, evictions and node splits happen within a few operations.    *)
(* Values are tagged records [tag, val] whose val is a sequence of         *)
(* integers: <<n>> for a numeric scalar, <<0>> or <<1>> for a bool, the    *)
(* characters of a string (0 is NUL).                                      *)
(***************************************************************************)
EXTENDS Integers, Sequences, FiniteSets, TLC

----------------------------------------------------------------------------
(* Program constants (scaled). *)

PAGE_SIZE == 8

BUFFER_POOL_SIZE == 2

BTREE_ORDER == 3

\* width of the fixed-length string record (256 in the source)
STRING_SIZE == 3

\* bulkInsert flushes the pool every so many rows (1000 in the source)
BULK_FLUSH_ROWS == 2

\* significant bits of a double, the type sum and average compute in (53 in
\* the source's build)
DOUBLE_DIGITS == 4

DataType == {"INT32", "INT64", "FLOAT", "DOUBLE", "STRING", "BOOL"}

\* the enumerator values of enum class DataType
TypeCode(type) ==
    CASE type = "INT32" -> 0
      [] type = "INT64" -> 1
      [] type = "FLOAT" -> 2
      [] type = "DOUBLE" -> 3
      [] type = "STRING" -> 4
      [] type = "BOOL" -> 5

CodeType(code) ==
    CASE code = 0 -> "INT32"
      [] code = 1 -> "INT64"
      [] code = 2 -> "FLOAT"
      [] code = 3 -> "DOUBLE"
      [] code = 4 -> "STRING"
      [] code = 5 -> "BOOL"
      [] OTHER -> "NONE"

----------------------------------------------------------------------------
(* Small helpers on sequences. *)

MinOf(S) == CHOOSE x \in S : \A y \in S : x <= y

Resize(s, n) == [i \in 1..n |-> IF i <= Len(s) THEN s[i] ELSE 0]

\* std::string::c_str() read back as a C string: the prefix before the first NUL
CStr(s) ==
    LET nul == {i \in 1..Len(s) : s[i] = 0}
    IN  IF nul = {} THEN s ELSE SubSeq(s, 1, MinOf(nul) - 1)

InsertAt(s, i, x) == SubSeq(s, 1, i - 1) \o <<x>> \o SubSeq(s, i, Len(s))

\* cells [from+1 .. from+n] of a page; a cell past the end of the buffer is
\* an out-of-bounds read and yields what the memory behind the buffer holds
\* there, oob (repeated as often as needed)
Cells(page, from, n, oob) ==
    [i \in 1..n |->
        IF from + i <= Len(page) THEN page[from + i]
        ELSE oob[((from + i - Len(page) - 1) % Len(oob)) + 1]]

----------------------------------------------------------------------------
(* Value: std::variant<int32_t, int64_t, float, double, std::string, bool> *)

IntV(type, n) == [tag |-> type, val |-> <<n>>]
StrV(s) == [tag |-> "STRING", val |-> s]
BoolV(b) == [tag |-> "BOOL", val |-> IF b THEN <<1>> ELSE <<0>>]

\* Value{}: the first alternative, value-initialised
EmptyValue == IntV("INT32", 0)

StrLess(a, b) ==
    \E i \in 1..Len(b) :
        /\ \A j \in 1..(i - 1) : j <= Len(a) /\ a[j] = b[j]
        /\ (i > Len(a) \/ a[i] < b[i])

\* operator== and operator< of std::variant: the alternative index first
ValEq(a, b) == a.tag = b.tag /\ a.val = b.val

ValLess(a, b) ==
    IF a.tag # b.tag THEN TypeCode(a.tag) < TypeCode(b.tag)
    ELSE IF a.tag = "STRING" THEN StrLess(a.val, b.val)
    ELSE a.val[1] < b.val[1]

compareValues(a, b) == IF ValEq(a, b) THEN 0 ELSE IF ValLess(a, b) THEN -1 ELSE 1

\* the default each column type is filled with (addColumn, insertRow)
DefaultValue(type) ==
    CASE type = "STRING" -> StrV(<<>>)
      [] type = "BOOL" -> BoolV(FALSE)
      [] OTHER -> IntV(type, 0)

----------------------------------------------------------------------------
(* Finite maps. *)

Put(f, k, v) == [x \in DOMAIN f \cup {k} |-> IF x = k THEN v ELSE f[x]]

Drop(f, k) == [x \in DOMAIN f \ {k} |-> f[x]]

EmptyMap == [x \in {} |-> 0]

----------------------------------------------------------------------------
(* Engine memory.  The operators below thread a record                     *)
(*   M = [pool, lru_list, lru_map, disk, writes, next_page_id, fault,     *)
(*        oob, hist, recent, content, closed, allocated, events, stale]   *)
(* through the calls of one handler:                                       *)
(*   pool      pages_: (file, page-id) -> Page {data, is_dirty}            *)
(*   lru_list  lru_list_, most recently used first                         *)
(*   lru_map   the keys lru_map_ holds a list iterator for                 *)
(*   disk      the page images written to the files so far                 *)
(*   writes    how often DiskManager::writePage ran per page in this call  *)
(*   next_page_id  the static counter of createNewNode                     *)
(*   fault     "none", or how the process ended abnormally: "killed" by an  *)
(*             out-of-bounds access, "hung" in a loop that never ends      *)
(*   oob       an out-of-bounds access happened in this call               *)
(*   hist      (history) per column <<table, column>>, the values its      *)
(*             append calls were given, by record-id                       *)
(*   recent    (history) the resident pages by their last fetchPage, the   *)
(*             latest first                                                *)
(*   content   (history) per page, the bytes last stored into it in memory *)
(*   closed    the DiskManager has closed its file streams                 *)
(*   allocated (history) the page-ids createNewNode has handed out, in     *)
(*             order                                                       *)
(*   events    (history) the rows insertRow has completed and the calls of *)
(*             flushAllPages during this call, in order                    *)
(*   stale     (history) some store went through a handle that was not the *)
(*             one the latest fetchPage returned, or to an evicted page    *)
(* A page key is <<file, page_id>>, a file is <<table, column, kind>>.     *)

ZeroPage == [i \in 1..PAGE_SIZE |-> 0]

\* a faulty variant: the columns of a table share one data file
DataFile_perTable(t, c) == <<t, "", "data">>

DataFile(t, c) == <<t, c, "data">>

IndexFile(t, c) == <<t, c, "idx">>

\* DiskManager::readPage: the file was truncated when it was first opened;
\* what was never written reads as zeros
readPage(M, key) == IF key \in DOMAIN M.disk THEN M.disk[key] ELSE ZeroPage

\* DiskManager::writePage: exactly one page at page_id * PAGE_SIZE; nothing
\* is written to a stream that is not open
writePage(M, key, data) ==
    IF M.closed THEN M
    ELSE [M EXCEPT !.disk = Put(M.disk, key, data),
                   !.writes = Put(M.writes, key,
                                  IF key \in DOMAIN M.writes THEN M.writes[key] + 1 ELSE 1)]

\* DiskManager::~DiskManager: every open stream is flushed and closed
closeFiles(M) == [M EXCEPT !.closed = TRUE]

getTotalPages(M) == Cardinality(DOMAIN M.pool)

RemoveFirst(s, x) ==
    LET at == {i \in 1..Len(s) : s[i] = x}
    IN  IF at = {} THEN s
        ELSE SubSeq(s, 1, MinOf(at) - 1) \o SubSeq(s, MinOf(at) + 1, Len(s))

\* a faulty variant: a fetch of a resident page leaves the order alone
updateLRU_noPromote(M, key) == M

\* a faulty variant: the old list entry of the page is not erased
updateLRU_noErase(M, key) ==
    IF key \in M.lru_map
    THEN [M EXCEPT !.lru_list = <<key>> \o M.lru_list]
    ELSE M

updateLRU(M, key) ==
    IF key \in M.lru_map
    THEN [M EXCEPT !.lru_list = <<key>> \o RemoveFirst(M.lru_list, key)]
    ELSE M

\* a faulty variant: the flag is cleared, the page is not written
flushPage_noWrite(M, key) ==
    IF key \in DOMAIN M.pool /\ M.pool[key].is_dirty
    THEN [M EXCEPT !.pool[key].is_dirty = FALSE]
    ELSE M

flushPage(M, key) ==
    IF key \in DOMAIN M.pool /\ M.pool[key].is_dirty
    THEN [writePage(M, key, M.pool[key].data) EXCEPT !.pool[key].is_dirty = FALSE]
    ELSE M

\* a faulty variant: the page is removed from the pool before the write-back
evictPage_dropsFirst(M) ==
    IF M.lru_list = <<>> THEN M
    ELSE LET key == M.lru_list[Len(M.lru_list)]
         IN  flushPage([M EXCEPT !.lru_list = SubSeq(@, 1, Len(@) - 1),
                                 !.pool = Drop(@, key), !.lru_map = @ \ {key}], key)

\* a faulty variant: the evicted page is dropped without being written
evictPage_noFlush(M) ==
    IF M.lru_list = <<>> THEN M
    ELSE [M EXCEPT !.lru_list = SubSeq(@, 1, Len(@) - 1),
                   !.pool = Drop(@, M.lru_list[Len(M.lru_list)]),
                   !.lru_map = @ \ {M.lru_list[Len(M.lru_list)]}]

evictPage(M) ==
    IF M.lru_list = <<>> THEN M
    ELSE LET key == M.lru_list[Len(M.lru_list)]
         IN  [flushPage([M EXCEPT !.lru_list = SubSeq(@, 1, Len(@) - 1)], key)
                EXCEPT !.pool = Drop(@, key), !.lru_map = @ \ {key}]

\* history: fetchPage(key) has returned with memory M; key is now the page
\* fetched last, and the pages no longer resident are forgotten
NoteFetch(M, key) ==
    [M EXCEPT !.recent = SelectSeq(<<key>> \o RemoveFirst(@, key),
                                   LAMBDA k : k \in DOMAIN M.pool)]

\* a faulty variant: the pool evicts only once it holds more than its size
fetchPage_evictsLate(M, key) ==
    NoteFetch(IF key \in DOMAIN M.pool THEN updateLRU(M, key)
              ELSE [(IF getTotalPages(M) > BUFFER_POOL_SIZE THEN evictPage(M) ELSE M)
                      EXCEPT !.pool = Put(@, key, [data |-> readPage(M, key),
                                                   is_dirty |-> FALSE]),
                             !.lru_list = <<key>> \o @,
                             !.lru_map = @ \cup {key}],
              key)

\* the result is the memory after the call; the handle returned is the
\* Page object now resident under key
fetchPage(M, key) ==
    NoteFetch(IF key \in DOMAIN M.pool THEN updateLRU(M, key)
              ELSE [(IF getTotalPages(M) >= BUFFER_POOL_SIZE THEN evictPage(M) ELSE M)
                      EXCEPT !.pool = Put(@, key, [data |-> readPage(M, key),
                                                   is_dirty |-> FALSE]),
                             !.lru_list = <<key>> \o @,
                             !.lru_map = @ \cup {key}],
              key)

\* the resident dirty pages, which flushAllPages writes one by one
DirtyKeys(M) == {k \in DOMAIN M.pool : M.pool[k].is_dirty}

RECURSIVE FlushKeys(_, _)
FlushKeys(M, keys) ==
    IF keys = {} THEN M
    ELSE LET k == CHOOSE x \in keys : TRUE
         IN  FlushKeys(flushPage(M, k), keys \ {k})

\* a faulty variant: the dirty pages are written, their flags stay set
flushAllPages_keepsDirty(M) == [FlushKeys(M, DOMAIN M.pool) EXCEPT !.pool = M.pool]

flushAllPages(M) == [FlushKeys(M, DOMAIN M.pool) EXCEPT !.events = Append(@, "flush")]

\* a store through a page handle: page->data = data; page->is_dirty = true.
\* The handle is a shared_ptr: a page evicted since the fetch still takes
\* the store, but is no longer the pool's page
StorePage(M, key, data) ==
    IF key \in DOMAIN M.pool
    THEN [M EXCEPT !.pool[key] = [data |-> data, is_dirty |-> TRUE],
                   !.content = Put(@, key, data),
                   !.stale = @ \/ M.recent = <<>> \/ Head(M.recent) # key]
    ELSE [M EXCEPT !.content = Put(@, key, data), !.stale = TRUE]

PageData(M, key) == M.pool[key].data

----------------------------------------------------------------------------
(* Undefined behaviour.  A node whose serialized form is longer than the   *)
(* page is written and read past the end of the page buffer.  What the     *)
(* build does then is not fixed: ub.kill says whether the access kills the *)
(* process, ub.oob is what the cells behind the buffer yield when read      *)
(* otherwise; an out-of-bounds store that does not kill lands outside the  *)
(* page and is lost to the page.                                           *)

\* the cells behind the buffer are told apart as far as one string key reaches
OobCells == STRING_SIZE

NoUB == [kill |-> FALSE, oob |-> [i \in 1..OobCells |-> 0]]

UBOutcomes ==
    {[NoUB EXCEPT !.kill = TRUE]}
    \cup {[kill |-> FALSE, oob |-> g] : g \in [1..OobCells -> {0, 1}]}

\* an access that is out of bounds when hit holds
Fault(M, ub, hit) ==
    IF ~hit THEN M
    ELSE [M EXCEPT !.oob = TRUE,
                   !.fault = IF ub.kill /\ @ = "none" THEN "killed" ELSE @]

----------------------------------------------------------------------------
(* BPlusTreeNode and its page image. *)

max_keys == BTREE_ORDER - 1

\* BPlusTreeNode(bool leaf = true)
NewNode(leaf) ==
    [is_leaf |-> leaf, keys |-> <<>>, children |-> <<>>, records |-> <<>>, next_leaf |-> 0]

\* the cells one key takes in a node page (serializeValue / deserializeValue)
KeySize(type) == IF type = "STRING" THEN STRING_SIZE ELSE IF type = "NONE" THEN 0 ELSE 1

\* serializeValue; writeValueToPage stores a record the same way:
\* val.resize(255) and 256 bytes from c_str() for a string, the scalar otherwise
serializeValue(value, type) ==
    IF type = "STRING" THEN Resize(value.val, STRING_SIZE - 1) \o <<0>>
    ELSE <<value.val[1]>>

\* deserializeValue; readValueFromPage reads a record the same way
deserializeValue(cells, type) ==
    CASE type = "STRING" -> StrV(CStr(cells))
      [] type = "BOOL" -> BoolV(cells[1] # 0)
      [] type = "NONE" -> IntV("INT32", 0)
      [] OTHER -> IntV(type, cells[1])

RECURSIVE Flatten(_)
Flatten(ss) == IF ss = <<>> THEN <<>> ELSE Head(ss) \o Flatten(Tail(ss))

\* the cells saveNode writes into the zeroed page
NodeCells(node, key_type) ==
    <<IF node.is_leaf THEN 1 ELSE 0, TypeCode(key_type), Len(node.keys)>>
    \o Flatten([i \in 1..Len(node.keys) |-> serializeValue(node.keys[i], key_type)])
    \o (IF node.is_leaf THEN node.records \o <<node.next_leaf>> ELSE node.children)

\* the consistency check saveNode makes before it touches the page
Consistent(node) ==
    IF node.is_leaf THEN Len(node.keys) = Len(node.records)
    ELSE Len(node.children) = Len(node.keys) + 1

saveNode(M, file, key_type, page_id, node, ub) ==
    LET key == <<file, page_id>>
        Store(cells) == Fault(StorePage(fetchPage(M, key), key, Resize(cells, PAGE_SIZE)),
                              ub, Len(cells) > PAGE_SIZE)
    IN  IF ~Consistent(node) THEN M ELSE Store(NodeCells(node, key_type))

\* the node getNode decodes from a page image
DecodeNode(data, ub) ==
    IF \A i \in 1..PAGE_SIZE : data[i] = 0 THEN NewNode(TRUE)
    ELSE LET leaf == data[1] # 0
             type == CodeType(data[2])
             key_count == data[3]
             ksz == KeySize(type)
             keys == [i \in 1..key_count |->
                        deserializeValue(Cells(data, 3 + (i - 1) * ksz, ksz, ub.oob), type)]
             rest == 3 + key_count * ksz
         IN  IF key_count > max_keys THEN [NewNode(TRUE) EXCEPT !.is_leaf = leaf]
             ELSE IF leaf
             THEN [is_leaf |-> TRUE, keys |-> keys, children |-> <<>>,
                   records |-> Cells(data, rest, key_count, ub.oob),
                   next_leaf |-> Cells(data, rest + key_count, 1, ub.oob)[1]]
             ELSE [is_leaf |-> FALSE, keys |-> keys,
                   children |-> Cells(data, rest, key_count + 1, ub.oob),
                   records |-> <<>>, next_leaf |-> 0]

\* how many cells getNode reads from the page
DecodeExtent(data) ==
    IF (\A i \in 1..PAGE_SIZE : data[i] = 0) \/ data[3] > max_keys THEN 3
    ELSE 3 + data[3] * KeySize(CodeType(data[2])) + data[3] + 1

\* result: [M, node]
getNode(M, file, page_id, ub) ==
    LET Decode(M1, data) ==
            [M |-> Fault(M1, ub, DecodeExtent(data) > PAGE_SIZE), node |-> DecodeNode(data, ub)]
        Fetched(M1) == Decode(M1, PageData(M1, <<file, page_id>>))
    IN  Fetched(fetchPage(M, <<file, page_id>>))

\* a faulty variant: the counter is not advanced
createNewNode_reuses(M, file, key_type, is_leaf, ub) ==
    [M |-> saveNode([M EXCEPT !.allocated = Append(@, M.next_page_id)],
                    file, key_type, M.next_page_id, NewNode(is_leaf), ub),
     page_id |-> M.next_page_id]

\* the static counter next_page_id is one for all indexes; result: [M, page_id]
createNewNode(M, file, key_type, is_leaf, ub) ==
    LET page_id == M.next_page_id
        M1 == [M EXCEPT !.next_page_id = page_id + 1, !.allocated = Append(@, page_id)]
    IN  [M |-> saveNode(M1, file, key_type, page_id, NewNode(is_leaf), ub), page_id |-> page_id]

----------------------------------------------------------------------------
(* BPlusTreeIndex.  An index is its file (index_name_), its key type and   *)
(* its root_page_id_.  Indices into vectors are 0-based as in the source;  *)
(* the sequences are 1-based.                                              *)

\* std::lower_bound with the comparator compareValues(a, b) < 0
RECURSIVE LowerBound(_, _, _, _)
LowerBound(keys, key, first, count) ==
    IF count = 0 THEN first
    ELSE LET step == count \div 2
             it == first + step
         IN  IF compareValues(keys[it + 1], key) < 0
             THEN LowerBound(keys, key, it + 1, count - (step + 1))
             ELSE LowerBound(keys, key, first, step)

findChildIndex(node, key) ==
    LET index == LowerBound(node.keys, key, 0, Len(node.keys))
    IN  IF ~node.is_leaf /\ index >= Len(node.children)
        THEN (IF Len(node.children) > 0 THEN Len(node.children) - 1 ELSE 0)
        ELSE index

insertIntoLeaf(node, key, record_id) ==
    LET index == LowerBound(node.keys, key, 0, Len(node.keys))
        records == IF Len(node.records) # Len(node.keys)
                   THEN Resize(node.records, Len(node.keys)) ELSE node.records
    IN  [node EXCEPT !.keys = InsertAt(node.keys, index + 1, key),
                     !.records = InsertAt(records, index + 1, record_id)]

insertIntoInternal(node, key, new_child, child_index) ==
    LET ci == IF child_index > Len(node.keys) THEN Len(node.keys) ELSE child_index
        children == IF Len(node.children) # Len(node.keys) + 1
                    THEN Resize(node.children, Len(node.keys) + 1) ELSE node.children
    IN  [node EXCEPT !.keys = InsertAt(node.keys, ci + 1, key),
                     !.children = InsertAt(children, ci + 2, new_child)]

\* result: [M, key, page], the promoted key and the new right sibling
splitLeaf(M, file, key_type, page_id, node, ub) ==
    LET mid == Len(node.keys) \div 2
        left(new_page_id) == [node EXCEPT !.keys = SubSeq(node.keys, 1, mid),
                                          !.records = Resize(node.records, mid),
                                          !.next_leaf = new_page_id]
        Halves(M0, new_page_id, new_node) ==
            [M |-> saveNode(saveNode(M0, file, key_type, page_id, left(new_page_id), ub),
                            file, key_type, new_page_id, new_node, ub),
             key |-> new_node.keys[1], page |-> new_page_id]
        Loaded(g, new_page_id) ==
            Halves(g.M, new_page_id,
                   [g.node EXCEPT !.keys = SubSeq(node.keys, mid + 1, Len(node.keys)),
                                  !.records = SubSeq(node.records, mid + 1, Len(node.records)),
                                  !.next_leaf = node.next_leaf])
        Created(c) == Loaded(getNode(c.M, file, c.page_id, ub), c.page_id)
    IN  Created(createNewNode(M, file, key_type, TRUE, ub))

splitInternal(M, file, key_type, page_id, node, ub) ==
    LET mid == Len(node.keys) \div 2
        left == [node EXCEPT !.keys = SubSeq(node.keys, 1, mid),
                             !.children = Resize(node.children, mid + 1)]
        Halves(M0, new_page_id, new_node) ==
            [M |-> saveNode(saveNode(M0, file, key_type, page_id, left, ub),
                            file, key_type, new_page_id, new_node, ub),
             key |-> node.keys[mid + 1], page |-> new_page_id]
        Loaded(g, new_page_id) ==
            Halves(g.M, new_page_id,
                   [g.node EXCEPT !.keys = SubSeq(node.keys, mid + 2, Len(node.keys)),
                                  !.children = SubSeq(node.children, mid + 2, Len(node.children))])
        Created(c) == Loaded(getNode(c.M, file, c.page_id, ub), c.page_id)
    IN  Created(createNewNode(M, file, key_type, FALSE, ub))

\* the child insertInternal and findLeaf descend into (children[child_index])
ChildAt(node, key) ==
    LET ci == findChildIndex(node, key)
        cj == IF ci >= Len(node.children)
              THEN (IF Len(node.children) > 0 THEN Len(node.children) - 1 ELSE 0)
              ELSE ci
    IN  [index |-> cj, page |-> IF cj < Len(node.children) THEN node.children[cj + 1] ELSE 0]

NoSplit(M) == [M |-> M, key |-> EmptyValue, page |-> 0]

\* result: [M, key, page]; page = 0 when the node did not split.  fuel
\* bounds the depth of the descent: a descent deeper than the number of
\* pages ever allocated runs through a cycle and never returns.
RECURSIVE insertInternal(_, _, _, _, _, _, _, _)
insertInternal(M, file, key_type, page_id, key, record_id, ub, fuel) ==
    LET Save(M0, node) == NoSplit(saveNode(M0, file, key_type, page_id, node, ub))
        InLeaf(M0, node) ==
            IF Len(node.keys) > max_keys
            THEN splitLeaf(M0, file, key_type, page_id, node, ub)
            ELSE Save(M0, node)
        InInternal(M0, node) ==
            IF Len(node.keys) > max_keys
            THEN splitInternal(M0, file, key_type, page_id, node, ub)
            ELSE Save(M0, node)
        Returned(node, ch, r) ==
            IF r.page # 0
            THEN InInternal(r.M, insertIntoInternal(node, r.key, r.page, ch.index))
            ELSE Save(r.M, node)
        Descend(g, ch) ==
            Returned(g.node, ch,
                     insertInternal(g.M, file, key_type, ch.page, key, record_id, ub, fuel - 1))
        Visit(g) ==
            IF g.node.is_leaf THEN InLeaf(g.M, insertIntoLeaf(g.node, key, record_id))
            ELSE Descend(g, ChildAt(g.node, key))
    IN  IF fuel = 0 THEN NoSplit([M EXCEPT !.fault = "hung"])
        ELSE Visit(getNode(M, file, page_id, ub))

\* result: [M, page]
RECURSIVE findLeaf(_, _, _, _, _, _)
findLeaf(M, file, page_id, key, ub, fuel) ==
    LET Visit(g) ==
            IF g.node.is_leaf THEN [M |-> g.M, page |-> page_id]
            ELSE findLeaf(g.M, file, ChildAt(g.node, key).page, key, ub, fuel - 1)
    IN  IF fuel = 0 THEN [M |-> [M EXCEPT !.fault = "hung"], page |-> page_id]
        ELSE Visit(getNode(M, file, page_id, ub))

\* BPlusTreeIndex::insert; result: [M, root], the memory and root_page_id_
insert(M, file, key_type, root_page_id, key, record_id, ub) ==
    LET Rooted(g, new_root, up, old_root, sibling) ==
            [M |-> saveNode(g.M, file, key_type, new_root,
                            [g.node EXCEPT !.keys = Append(@, up),
                                           !.children = @ \o <<old_root, sibling>>], ub),
             root |-> new_root]
        Grown(c, r, old_root) ==
            Rooted(getNode(c.M, file, c.page_id, ub), c.page_id, r.key, old_root, r.page)
        Inserted(r, old_root) ==
            IF r.page # 0
            THEN Grown(createNewNode(r.M, file, key_type, FALSE, ub), r, old_root)
            ELSE [M |-> r.M, root |-> old_root]
        Start(c0) ==
            Inserted(insertInternal(c0.M, file, key_type, c0.page_id, key, record_id, ub,
                                    c0.M.next_page_id),
                     c0.page_id)
    IN  Start(IF root_page_id = 0 THEN createNewNode(M, file, key_type, TRUE, ub)
              ELSE [M |-> M, page_id |-> root_page_id])

\* the records a leaf holds under key, in the order of the leaf
RECURSIVE MatchesFrom(_, _, _)
MatchesFrom(node, key, i) ==
    IF i > Len(node.keys) THEN <<>>
    ELSE (IF ValEq(node.keys[i], key) THEN <<node.records[i]>> ELSE <<>>)
         \o MatchesFrom(node, key, i + 1)

\* BPlusTreeIndex::search; result: [M, records]
search(M, file, root_page_id, key, ub) ==
    LET Read(g) == [M |-> g.M, records |-> MatchesFrom(g.node, key, 1)]
        AtLeaf(l) == Read(getNode(l.M, file, l.page, ub))
    IN  IF root_page_id = 0 THEN [M |-> M, records |-> <<>>]
        ELSE AtLeaf(findLeaf(M, file, root_page_id, key, ub, M.next_page_id))

\* the scan of one leaf in rangeSearch; result: [records, done], done when
\* a key above end_key ended the search
RECURSIVE ScanLeaf(_, _, _, _, _)
ScanLeaf(node, start_key, end_key, i, acc) ==
    IF i > Len(node.keys) THEN [records |-> acc, done |-> FALSE]
    ELSE LET k == node.keys[i]
             acc1 == IF compareValues(k, start_key) >= 0 /\ compareValues(k, end_key) <= 0
                     THEN Append(acc, node.records[i]) ELSE acc
         IN  IF compareValues(k, end_key) > 0 THEN [records |-> acc1, done |-> TRUE]
             ELSE ScanLeaf(node, start_key, end_key, i + 1, acc1)

\* the walk along next_leaf; a walk longer than the number of pages ever
\* allocated runs through a cycle and never returns
RECURSIVE WalkLeaves(_, _, _, _, _, _, _, _)
WalkLeaves(M, file, leaf_page, start_key, end_key, acc, ub, fuel) ==
    LET Scanned(g, sc) ==
            IF sc.done THEN [M |-> g.M, records |-> sc.records]
            ELSE WalkLeaves(g.M, file, g.node.next_leaf, start_key, end_key,
                            sc.records, ub, fuel - 1)
        Visit(g) == Scanned(g, ScanLeaf(g.node, start_key, end_key, 1, acc))
    IN  IF leaf_page = 0 THEN [M |-> M, records |-> acc]
        ELSE IF fuel = 0 THEN [M |-> [M EXCEPT !.fault = "hung"], records |-> acc]
        ELSE Visit(getNode(M, file, leaf_page, ub))

\* BPlusTreeIndex::rangeSearch; result: [M, records]
rangeSearch(M, file, root_page_id, start_key, end_key, ub) ==
    LET Walk(l) == WalkLeaves(l.M, file, l.page, start_key, end_key, <<>>, ub, M.next_page_id)
    IN  IF root_page_id = 0 THEN [M |-> M, records |-> <<>>]
        ELSE Walk(findLeaf(M, file, root_page_id, start_key, ub, M.next_page_id))

----------------------------------------------------------------------------
(* DiskBasedColumn.  A column is [type, total_records, root_page_id]; its  *)
(* name <<t, c>> gives its two files.                                      *)

getRecordSize(type) == IF type = "STRING" THEN STRING_SIZE ELSE 1

\* a faulty variant: the quotient is rounded up
records_per_page_roundsUp(type) ==
    (PAGE_SIZE + getRecordSize(type) - 1) \div getRecordSize(type)

records_per_page(type) == PAGE_SIZE \div getRecordSize(type)

\* a faulty variant: the record count starts at one
NewColumn_fromOne(type) == [type |-> type, total_records |-> 1, root_page_id |-> 0]

\* a faulty variant: the index starts at the first page of its file
NewColumn_opensRoot(type) == [type |-> type, total_records |-> 0, root_page_id |-> 1]

NewColumn(type) == [type |-> type, total_records |-> 0, root_page_id |-> 0]

\* a faulty variant: the slot number taken as the position in the page
writeValueToPage_unscaled(data, type, offset, value) ==
    LET size == getRecordSize(type)
        cells == serializeValue(value, type)
    IN  [i \in 1..Len(data) |->
            IF i > offset /\ i <= offset + size THEN cells[i - offset] ELSE data[i]]

\* the page with the record at slot offset overwritten
writeValueToPage(data, type, offset, value) ==
    LET size == getRecordSize(type)
        cells == serializeValue(value, type)
    IN  [i \in 1..Len(data) |->
            IF i > offset * size /\ i <= offset * size + size
            THEN cells[i - offset * size] ELSE data[i]]

readValueFromPage(data, type, offset) ==
    LET size == getRecordSize(type)
    IN  deserializeValue(SubSeq(data, offset * size + 1, offset * size + size), type)

\* the integer nearest to the quotient a / d of two naturals, d > 0; ties go
\* to the even one
RoundQuot(a, d) ==
    IF 2 * (a % d) < d \/ (2 * (a % d) = d /\ (a \div d) % 2 = 0)
    THEN a \div d ELSE (a \div d) + 1

\* the power of two by which a / d is scaled down to fit the significand
RECURSIVE ScaleDown(_, _)
ScaleDown(a, d) == IF a \div d < 2 ^ DOUBLE_DIGITS THEN 1 ELSE 2 * ScaleDown(a, 2 * d)

\* the number of times a / d is doubled to fill the significand
RECURSIVE ScaleUp(_, _)
ScaleUp(a, d) == IF a \div d >= 2 ^ (DOUBLE_DIGITS - 1) THEN 0 ELSE 1 + ScaleUp(2 * a, d)

\* static_cast<double> of an integer: a double holds DOUBLE_DIGITS
\* significant bits, an integer with more is rounded to the nearest double
ToDouble(n) ==
    IF n < 0 THEN 0 - (ScaleDown(0 - n, 1) * RoundQuot(0 - n, ScaleDown(0 - n, 1)))
    ELSE ScaleDown(n, 1) * RoundQuot(n, ScaleDown(n, 1))

\* a + b of two doubles that hold integers
DAdd(a, b) == ToDouble(a + b)

\* a / n of a double that holds a natural and the double of a size_t: the
\* double nearest to the quotient, as a pair <<m, k>> that stands for
\* m / 2^k; 0.0 / 0 is not a number, written <<0, -1>>
DDiv(a, n) ==
    IF n = 0 THEN <<0, 0 - 1>>
    ELSE IF a = 0 THEN <<0, 0>>
    ELSE IF a \div ToDouble(n) >= 2 ^ (DOUBLE_DIGITS - 1)
    THEN <<ScaleDown(a, ToDouble(n))
             * RoundQuot(a, ToDouble(n) * ScaleDown(a, ToDouble(n))), 0>>
    ELSE <<RoundQuot(a * 2 ^ ScaleUp(a, ToDouble(n)), ToDouble(n)), ScaleUp(a, ToDouble(n))>>

getNumericValue(type, value) ==
    IF type \in {"INT32", "INT64", "FLOAT", "DOUBLE"} THEN ToDouble(value.val[1]) ELSE 0

\* a faulty variant: the value is written through the handle only after the
\* index has been updated
append_storesLate(M, t, c, col, value, ub) ==
    LET record_id == col.total_records
        page_id == record_id \div records_per_page(col.type)
        offset == record_id % records_per_page(col.type)
        key == <<DataFile(t, c), page_id>>
        Indexed(ins, data) ==
            [M |-> [StorePage(ins.M, key, data) EXCEPT !.hist[<<t, c>>] = Append(@, value)],
             col |-> [col EXCEPT !.total_records = @ + 1, !.root_page_id = ins.root],
             threw |-> FALSE, record_id |-> record_id]
        Fetched(M1) ==
            IF value.tag # col.type
            THEN [M |-> M1, col |-> col, threw |-> TRUE, record_id |-> 0]
            ELSE Indexed(insert(M1, IndexFile(t, c), col.type, col.root_page_id,
                                value, record_id, ub),
                         writeValueToPage(PageData(M1, key), col.type, offset, value))
    IN  Fetched(fetchPage(M, key))

\* DiskBasedColumn::append; result: [M, col, threw, record_id].
\* std::get in writeValueToPage throws when the variant's alternative is not
\* the column's type: the page has been fetched, nothing else has happened.
append(M, t, c, col, value, ub) ==
    LET record_id == col.total_records
        page_id == record_id \div records_per_page(col.type)
        offset == record_id % records_per_page(col.type)
        key == <<DataFile(t, c), page_id>>
        Indexed(ins) ==
            [M |-> [(IF (col.total_records < 5 \/ col.total_records % 10000 = 0)
                        /\ col.total_records % 1000 = 0
                     THEN flushPage(ins.M, key) ELSE ins.M)
                      EXCEPT !.hist[<<t, c>>] = Append(@, value)],
             col |-> [col EXCEPT !.total_records = @ + 1, !.root_page_id = ins.root],
             threw |-> FALSE, record_id |-> record_id]
        Written(M2) ==
            Indexed(insert(M2, IndexFile(t, c), col.type, col.root_page_id, value, record_id, ub))
        Fetched(M1) ==
            IF value.tag # col.type
            THEN [M |-> M1, col |-> col, threw |-> TRUE, record_id |-> 0]
            ELSE Written(StorePage(M1, key,
                                   writeValueToPage(PageData(M1, key), col.type, offset, value)))
    IN  Fetched(fetchPage(M, key))

\* DiskBasedColumn::get; result: [M, value]
get(M, t, c, col, record_id) ==
    LET page_id == record_id \div records_per_page(col.type)
        offset == record_id % records_per_page(col.type)
        key == <<DataFile(t, c), page_id>>
        Read(M1) == [M |-> M1, value |-> readValueFromPage(PageData(M1, key), col.type, offset)]
    IN  Read(fetchPage(M, key))

\* result: [M, records]
findRecords(M, t, c, col, value, ub) ==
    search(M, IndexFile(t, c), col.root_page_id, value, ub)

findRecordsInRange(M, t, c, col, start, end, ub) ==
    rangeSearch(M, IndexFile(t, c), col.root_page_id, start, end, ub)

\* the records of one page that sum adds up
RECURSIVE SumSlots(_, _, _, _, _)
SumSlots(data, type, i, n, result) ==
    IF i >= n THEN result
    ELSE SumSlots(data, type, i + 1, n,
                  DAdd(result, getNumericValue(type, readValueFromPage(data, type, i))))

\* the loop of sum over the pages from page_id on; result: [M, value]
RECURSIVE SumPages(_, _, _, _, _, _)
SumPages(M, t, c, col, page_id, result) ==
    LET rpp == records_per_page(col.type)
        start_record == page_id * rpp
        end_record == IF start_record + rpp < col.total_records
                      THEN start_record + rpp ELSE col.total_records
        key == <<DataFile(t, c), page_id>>
        Fetched(M1) ==
            SumPages(M1, t, c, col, page_id + 1,
                     SumSlots(PageData(M1, key), col.type, 0, end_record - start_record, result))
    IN  IF ~(page_id * rpp < col.total_records) THEN [M |-> M, value |-> result]
        ELSE Fetched(fetchPage(M, key))

\* a faulty variant: every page is summed to its last slot
sum_wholePages(M, t, c, col) ==
    SumPages(M, t, c,
             [col EXCEPT !.total_records =
                 ((@ + records_per_page(col.type) - 1) \div records_per_page(col.type))
                 * records_per_page(col.type)],
             0, 0)

sum(M, t, c, col) == SumPages(M, t, c, col, 0, 0)

\* a faulty variant: the sum is divided whatever the size is
average_noGuard(M, t, c, col) ==
    LET Divided(r) == [M |-> r.M, value |-> DDiv(r.value, col.total_records)]
    IN  Divided(sum(M, t, c, col))

\* DiskBasedColumn::average; result: [M, value], value a pair as of DDiv
average(M, t, c, col) ==
    LET Divided(r) == [M |-> r.M, value |-> DDiv(r.value, col.total_records)]
    IN  IF col.total_records = 0 THEN [M |-> M, value |-> <<0, 0>>]
        ELSE Divided(sum(M, t, c, col))

----------------------------------------------------------------------------
(* DiskBasedTable.  A table is [column_order, row_count, columns], columns *)
(* mapping a column name to its column.  A row is a function from column   *)
(* names to values (std::unordered_map<std::string, Value>).               *)

NewTable == [column_order |-> <<>>, row_count |-> 0, columns |-> EmptyMap]

\* the back-fill loop of addColumn; result: [M, col]
RECURSIVE AppendDefaults(_, _, _, _, _, _)
AppendDefaults(M, t, c, col, n, ub) ==
    LET Rest(a) == AppendDefaults(a.M, t, c, a.col, n - 1, ub)
    IN  IF n = 0 THEN [M |-> M, col |-> col]
        ELSE Rest(append(M, t, c, col, DefaultValue(col.type), ub))

\* a faulty variant: a column of the same name is replaced
addColumn_replaces(M, t, table, name, type, ub) ==
    LET Filled(f) ==
            [M |-> f.M,
             table |-> [table EXCEPT !.columns = Put(table.columns, name, f.col),
                                     !.column_order = Append(table.column_order, name)],
             threw |-> FALSE]
    IN  Filled(AppendDefaults([M EXCEPT !.hist = Put(M.hist, <<t, name>>, <<>>)],
                              t, name, NewColumn(type), table.row_count, ub))

\* a faulty variant: the new column is not back-filled
addColumn_noBackfill(M, t, table, name, type, ub) ==
    IF name \in DOMAIN table.columns
    THEN [M |-> M, table |-> table, threw |-> TRUE]
    ELSE [M |-> [M EXCEPT !.hist = Put(M.hist, <<t, name>>, <<>>)],
          table |-> [table EXCEPT !.columns = Put(table.columns, name, NewColumn(type)),
                                  !.column_order = Append(table.column_order, name)],
          threw |-> FALSE]

\* DiskBasedTable::addColumn; result: [M, table, threw]
addColumn(M, t, table, name, type, ub) ==
    LET Filled(f) ==
            [M |-> f.M,
             table |-> [table EXCEPT !.columns = Put(table.columns, name, f.col),
                                     !.column_order = Append(table.column_order, name)],
             threw |-> FALSE]
    IN  IF name \in DOMAIN table.columns
        THEN [M |-> M, table |-> table, threw |-> TRUE]
        ELSE Filled(AppendDefaults([M EXCEPT !.hist = Put(M.hist, <<t, name>>, <<>>)],
                                   t, name, NewColumn(type), table.row_count, ub))

\* the loop of insertRow over column_order from position i on
RECURSIVE InsertCells(_, _, _, _, _, _)
InsertCells(M, t, table, row_data, i, ub) ==
    LET c == table.column_order[i]
        col == table.columns[c]
        v == IF c \in DOMAIN row_data THEN row_data[c] ELSE DefaultValue(col.type)
        Rest(a) ==
            IF a.threw THEN [M |-> a.M, table |-> table, threw |-> TRUE]
            ELSE InsertCells(a.M, t, [table EXCEPT !.columns[c] = a.col], row_data, i + 1, ub)
    IN  IF i > Len(table.column_order) THEN [M |-> M, table |-> table, threw |-> FALSE]
        ELSE Rest(append(M, t, c, col, v, ub))

\* a faulty variant: the first declared column is passed over
insertRow_skipsFirst(M, t, table, row_data, ub) ==
    LET Counted(r) == IF r.threw THEN r ELSE [r EXCEPT !.table.row_count = @ + 1]
    IN  Counted(InsertCells(M, t, table, row_data, 2, ub))

\* DiskBasedTable::insertRow; result: [M, table, threw]
insertRow(M, t, table, row_data, ub) ==
    LET Counted(r) == IF r.threw THEN r
                      ELSE [r EXCEPT !.table.row_count = @ + 1,
                                     !.M.events = Append(@, "row")]
    IN  Counted(InsertCells(M, t, table, row_data, 1, ub))

\* a faulty variant: the pool is flushed when the count of rows yet to come
\* is a multiple, not the row_count
RECURSIVE bulkInsertFrom_countsRest(_, _, _, _, _, _)
bulkInsertFrom_countsRest(M, t, table, rows, i, ub) ==
    LET Rest(r) ==
            IF r.threw THEN r
            ELSE bulkInsertFrom_countsRest(IF (Len(rows) - i) % BULK_FLUSH_ROWS = 0
                                           THEN flushAllPages(r.M) ELSE r.M,
                                           t, r.table, rows, i + 1, ub)
    IN  IF i > Len(rows) THEN [M |-> M, table |-> table, threw |-> FALSE]
        ELSE Rest(insertRow(M, t, table, rows[i], ub))

\* DiskBasedTable::bulkInsert over rows from position i on
RECURSIVE bulkInsertFrom(_, _, _, _, _, _)
bulkInsertFrom(M, t, table, rows, i, ub) ==
    LET Rest(r) ==
            IF r.threw THEN r
            ELSE bulkInsertFrom(IF r.table.row_count % BULK_FLUSH_ROWS = 0
                                THEN flushAllPages(r.M) ELSE r.M,
                                t, r.table, rows, i + 1, ub)
    IN  IF i > Len(rows) THEN [M |-> M, table |-> table, threw |-> FALSE]
        ELSE Rest(insertRow(M, t, table, rows[i], ub))

bulkInsert(M, t, table, rows, ub) == bulkInsertFrom(M, t, table, rows, 1, ub)

\* one result row: the projected columns read at record_id; result: [M, row]
RECURSIVE ReadRow(_, _, _, _, _, _, _)
ReadRow(M, t, table, cols, record_id, i, row) ==
    LET Rest(g) == ReadRow(g.M, t, table, cols, record_id, i + 1, Put(row, cols[i], g.value))
    IN  IF i > Len(cols) THEN [M |-> M, row |-> row]
        ELSE IF cols[i] \in DOMAIN table.columns
        THEN Rest(get(M, t, cols[i], table.columns[cols[i]], record_id))
        ELSE ReadRow(M, t, table, cols, record_id, i + 1, row)

\* the result-building loop of indexedSelect and rangeSelect, which return
\* their result and throw nothing of their own; result: [M, rows, threw]
RECURSIVE ReadRows(_, _, _, _, _, _, _)
ReadRows(M, t, table, cols, record_ids, i, rows) ==
    LET Rest(r) == ReadRows(r.M, t, table, cols, record_ids, i + 1, Append(rows, r.row))
    IN  IF i > Len(record_ids) THEN [M |-> M, rows |-> rows, threw |-> FALSE]
        ELSE Rest(ReadRow(M, t, table, cols, record_ids[i], 1, EmptyMap))

\* a faulty variant: the projection is ignored
indexedSelect_allColumns(M, t, table, index_column, value, selected_columns, ub) ==
    LET Rows(f) == ReadRows(f.M, t, table, table.column_order, f.records, 1, <<>>)
    IN  IF index_column \notin DOMAIN table.columns
        THEN [M |-> M, rows |-> <<>>, threw |-> FALSE]
        ELSE Rows(findRecords(M, t, index_column, table.columns[index_column], value, ub))

\* DiskBasedTable::indexedSelect; a name that is no column gives the empty
\* result, returned as any other; result: [M, rows, threw]
indexedSelect(M, t, table, index_column, value, selected_columns, ub) ==
    LET cols == IF selected_columns = <<>> THEN table.column_order ELSE selected_columns
        Rows(f) == ReadRows(f.M, t, table, cols, f.records, 1, <<>>)
    IN  IF index_column \notin DOMAIN table.columns
        THEN [M |-> M, rows |-> <<>>, threw |-> FALSE]
        ELSE Rows(findRecords(M, t, index_column, table.columns[index_column], value, ub))

\* DiskBasedTable::rangeSelect; result: [M, rows, threw]
rangeSelect(M, t, table, index_column, start_value, end_value, selected_columns, ub) ==
    LET cols == IF selected_columns = <<>> THEN table.column_order ELSE selected_columns
        Rows(f) == ReadRows(f.M, t, table, cols, f.records, 1, <<>>)
    IN  IF index_column \notin DOMAIN table.columns
        THEN [M |-> M, rows |-> <<>>, threw |-> FALSE]
        ELSE Rows(findRecordsInRange(M, t, index_column, table.columns[index_column],
                                     start_value, end_value, ub))

\* a faulty variant: the files are closed before the pages are flushed
teardown_closesFirst(M) == flushAllPages(closeFiles(M))

\* LargeScaleDatabase::~LargeScaleDatabase, then the destructors of the
\* members in reverse order of declaration: the tables and the buffer pool
\* (which write nothing), the DiskManager last
teardown(M) == closeFiles(flushAllPages(M))

\* LargeScaleDatabase::getTable: the table registered under the name, or
\* nothing (nullptr)
getTable(tbls, table_name) ==
    IF table_name \in DOMAIN tbls
    THEN [found |-> TRUE, table |-> tbls[table_name]]
    ELSE [found |-> FALSE]

----------------------------------------------------------------------------
(* LargeScaleDatabase: the state of the process. *)

VARIABLES
    pool,          \* BufferPoolManager::pages_
    lru_list,      \* BufferPoolManager::lru_list_
    lru_map,       \* BufferPoolManager::lru_map_ (its keys)
    disk,          \* the files of the DiskManager, by page
    next_page_id,  \* static PageId next_page_id of createNewNode
    tables,        \* LargeScaleDatabase::tables_
    fault,         \* "none" while the process runs, else how it ended
    hist,          \* history: the values appended to each column
    writes,        \* history: the disk writes of the last call, per page
    recent,        \* history: the resident pages by last fetchPage, latest first
    content,       \* history: per page, the bytes last stored into it in memory
    closed,        \* the database is torn down, the files are closed
    allocated,     \* history: the page-ids handed out by createNewNode
    events,        \* history: rows completed and flushAllPages calls of the last call
    stale,         \* history: a store has gone through a stale page handle
    last           \* history: the last call and what it returned

vars ==
    <<pool, lru_list, lru_map, disk, next_page_id, tables, fault, hist, writes, recent,
      content, closed, allocated, events, stale, last>>

\* the memory a handler starts with
Mem ==
    [pool |-> pool, lru_list |-> lru_list, lru_map |-> lru_map, disk |-> disk,
     writes |-> EmptyMap, next_page_id |-> next_page_id, fault |-> fault, oob |-> FALSE,
     hist |-> hist, recent |-> recent, content |-> content, closed |-> closed,
     allocated |-> allocated, events |-> <<>>, stale |-> stale]

\* the memory a handler ends with
Commit(M) ==
    /\ pool' = M.pool
    /\ lru_list' = M.lru_list
    /\ lru_map' = M.lru_map
    /\ disk' = M.disk
    /\ writes' = M.writes
    /\ next_page_id' = M.next_page_id
    /\ fault' = M.fault
    /\ hist' = M.hist
    /\ recent' = M.recent
    /\ content' = M.content
    /\ closed' = M.closed
    /\ allocated' = M.allocated
    /\ events' = M.events
    /\ stale' = M.stale

\* the results of a handler Op: one, unless it runs into undefined
\* behaviour, and then one per outcome
Outcomes(Op(_)) ==
    LET r == Op(NoUB)
    IN  IF r.M.oob THEN {Op(ub) : ub \in UBOutcomes} ELSE {r}

\* the process runs and the database object lives
Running == fault = "none" /\ ~closed

\* LargeScaleDatabase(name, db_path): no table, an empty pool, empty files
Init ==
    /\ pool = EmptyMap
    /\ lru_list = <<>>
    /\ lru_map = {}
    /\ disk = EmptyMap
    /\ next_page_id = 1
    /\ tables = EmptyMap
    /\ fault = "none"
    /\ hist = EmptyMap
    /\ writes = EmptyMap
    /\ recent = <<>>
    /\ content = EmptyMap
    /\ closed = FALSE
    /\ allocated = <<>>
    /\ events = <<>>
    /\ stale = FALSE
    /\ last = [op |-> "new"]

----------------------------------------------------------------------------
(* The calls of the public interface, one action each. *)

\* a faulty variant: a table of the same name is replaced by a new one
CreateTable_replaces(t) ==
    /\ Running
    /\ Commit(Mem)
    /\ tables' = Put(tables, t, NewTable)
    /\ last' = [op |-> "createTable", table |-> t, threw |-> FALSE]

\* LargeScaleDatabase::createTable
CreateTable(t) ==
    /\ Running
    /\ Commit(Mem)
    /\ IF t \in DOMAIN tables
       THEN /\ UNCHANGED tables
            /\ last' = [op |-> "createTable", table |-> t, threw |-> TRUE]
       ELSE /\ tables' = Put(tables, t, NewTable)
            /\ last' = [op |-> "createTable", table |-> t, threw |-> FALSE]

\* LargeScaleDatabase::dropTable: the table and its columns are destroyed,
\* their pages and files stay
DropTable(t) ==
    /\ Running
    /\ Commit([Mem EXCEPT !.hist = [k \in {h \in DOMAIN hist : h[1] # t} |-> hist[k]]])
    /\ tables' = Drop(tables, t)
    /\ last' = [op |-> "dropTable", table |-> t]

\* LargeScaleDatabase::optimize
Optimize ==
    /\ Running
    /\ Commit(flushAllPages(Mem))
    /\ UNCHANGED tables
    /\ last' = [op |-> "optimize"]

\* the database object goes out of scope; the state kept is the memory as
\* the destructor body left it
Teardown ==
    /\ Running
    /\ Commit(teardown(Mem))
    /\ UNCHANGED tables
    /\ last' = [op |-> "teardown"]

\* getTable(t)->addColumn(c, type)
AddColumn(t, c, type) ==
    /\ Running
    /\ t \in DOMAIN tables
    /\ \E r \in Outcomes(LAMBDA ub : addColumn(Mem, t, tables[t], c, type, ub)) :
        /\ Commit(r.M)
        /\ tables' = [tables EXCEPT ![t] = r.table]
        /\ last' = [op |-> "addColumn", table |-> t, column |-> c, threw |-> r.threw]

\* getTable(t)->insertRow(row_data)
InsertRow(t, row_data) ==
    /\ Running
    /\ t \in DOMAIN tables
    /\ \E r \in Outcomes(LAMBDA ub : insertRow(Mem, t, tables[t], row_data, ub)) :
        /\ Commit(r.M)
        /\ tables' = [tables EXCEPT ![t] = r.table]
        /\ last' = [op |-> "insertRow", table |-> t, threw |-> r.threw, row |-> row_data]

\* getTable(t)->bulkInsert(rows)
BulkInsert(t, rows) ==
    /\ Running
    /\ t \in DOMAIN tables
    /\ \E r \in Outcomes(LAMBDA ub : bulkInsert(Mem, t, tables[t], rows, ub)) :
        /\ Commit(r.M)
        /\ tables' = [tables EXCEPT ![t] = r.table]
        /\ last' = [op |-> "bulkInsert", table |-> t, threw |-> r.threw, rows |-> rows]

\* getTable(t)->getColumn(c)->append(value)
ColumnAppend(t, c, value) ==
    /\ Running
    /\ t \in DOMAIN tables
    /\ c \in DOMAIN tables[t].columns
    /\ \E r \in Outcomes(LAMBDA ub : append(Mem, t, c, tables[t].columns[c], value, ub)) :
        /\ Commit(r.M)
        /\ tables' = [tables EXCEPT ![t].columns[c] = r.col]
        /\ last' = [op |-> "append", table |-> t, column |-> c, threw |-> r.threw,
                    record_id |-> r.record_id]

\* getTable(t)->getColumn(c)->get(record_id), for a record-id below size()
Get(t, c, record_id) ==
    /\ Running
    /\ t \in DOMAIN tables
    /\ c \in DOMAIN tables[t].columns
    /\ record_id < tables[t].columns[c].total_records
    /\ LET r == get(Mem, t, c, tables[t].columns[c], record_id)
       IN  /\ Commit(r.M)
           /\ last' = [op |-> "get", table |-> t, column |-> c]
    /\ UNCHANGED tables

\* getTable(t)->getColumn(c)->findRecords(value)
FindRecords(t, c, value) ==
    /\ Running
    /\ t \in DOMAIN tables
    /\ c \in DOMAIN tables[t].columns
    /\ \E r \in Outcomes(LAMBDA ub : findRecords(Mem, t, c, tables[t].columns[c], value, ub)) :
        /\ Commit(r.M)
        /\ last' = [op |-> "findRecords", table |-> t, column |-> c]
    /\ UNCHANGED tables

\* getTable(t)->getColumn(c)->findRecordsInRange(start, end)
FindRecordsInRange(t, c, start, end) ==
    /\ Running
    /\ t \in DOMAIN tables
    /\ c \in DOMAIN tables[t].columns
    /\ \E r \in Outcomes(LAMBDA ub :
                findRecordsInRange(Mem, t, c, tables[t].columns[c], start, end, ub)) :
        /\ Commit(r.M)
        /\ last' = [op |-> "findRecordsInRange", table |-> t, column |-> c]
    /\ UNCHANGED tables

\* getTable(t)->indexedSelect(index_column, value, selected_columns)
IndexedSelect(t, index_column, value, selected_columns) ==
    /\ Running
    /\ t \in DOMAIN tables
    /\ \E r \in Outcomes(LAMBDA ub : indexedSelect(Mem, t, tables[t], index_column, value,
                                                  selected_columns, ub)) :
        /\ Commit(r.M)
        /\ last' = [op |-> "indexedSelect", table |-> t, column |-> index_column,
                    value |-> value, cols |-> selected_columns, rows |-> r.rows,
                    threw |-> r.threw]
    /\ UNCHANGED tables

\* getTable(t)->rangeSelect(index_column, start_value, end_value, selected_columns)
RangeSelect(t, index_column, start_value, end_value, selected_columns) ==
    /\ Running
    /\ t \in DOMAIN tables
    /\ \E r \in Outcomes(LAMBDA ub : rangeSelect(Mem, t, tables[t], index_column, start_value,
                                                end_value, selected_columns, ub)) :
        /\ Commit(r.M)
        /\ last' = [op |-> "rangeSelect", table |-> t, column |-> index_column,
                    start |-> start_value, end |-> end_value,
                    cols |-> selected_columns, rows |-> r.rows, threw |-> r.threw]
    /\ UNCHANGED tables

\* getTable(t)->getColumn(c)->sum()
Sum(t, c) ==
    /\ Running
    /\ t \in DOMAIN tables
    /\ c \in DOMAIN tables[t].columns
    /\ LET r == sum(Mem, t, c, tables[t].columns[c])
       IN  /\ Commit(r.M)
           /\ last' = [op |-> "sum", table |-> t, column |-> c, value |-> r.value]
    /\ UNCHANGED tables

\* getTable(t)->getColumn(c)->average()
Average(t, c) ==
    /\ Running
    /\ t \in DOMAIN tables
    /\ c \in DOMAIN tables[t].columns
    /\ LET r == average(Mem, t, c, tables[t].columns[c])
       IN  /\ Commit(r.M)
           /\ last' = [op |-> "average", table |-> t, column |-> c, value |-> r.value]
    /\ UNCHANGED tables

\* BPlusTreeIndex::saveNode(page_id, node) on the index of key type type;
\* last.saved keeps, per page, the node last handed to saveNode
SaveNode(file, type, page_id, node) ==
    /\ Running
    /\ \E r \in Outcomes(LAMBDA ub : [M |-> saveNode(Mem, file, type, page_id, node, ub)]) :
        /\ Commit(r.M)
        /\ last' = [op |-> "saveNode", type |-> type, page |-> page_id, node |-> node,
                    saved |-> Put(IF last.op = "new" THEN EmptyMap ELSE last.saved,
                                  page_id, node)]
    /\ UNCHANGED tables

\* BPlusTreeIndex::getNode(page_id)
GetNode(file, page_id) ==
    /\ Running
    /\ last.op # "new"
    /\ \E r \in Outcomes(LAMBDA ub : getNode(Mem, file, page_id, ub)) :
        /\ Commit(r.M)
        /\ last' = [op |-> "getNode", type |-> last.type, page |-> page_id, node |-> r.node,
                    saved |-> last.saved]
    /\ UNCHANGED tables

\* BufferPoolManager::fetchPage(file, page_id), the handle read only
FetchPage(key) ==
    /\ Running
    /\ Commit(fetchPage(Mem, key))
    /\ UNCHANGED tables
    /\ last' = [op |-> "fetchPage"]

\* fetchPage(file, page_id) and a store through the handle, as append and
\* saveNode do: the page's first cell is set and the page marked dirty
FetchAndStore(key, v) ==
    /\ Running
    /\ LET Store(M1) == StorePage(M1, key, [PageData(M1, key) EXCEPT ![1] = v])
       IN  Commit(Store(fetchPage(Mem, key)))
    /\ UNCHANGED tables
    /\ last' = [op |-> "store"]

\* BufferPoolManager::flushPage(file, page_id)
FlushPage(key) ==
    /\ Running
    /\ Commit(flushPage(Mem, key))
    /\ UNCHANGED tables
    /\ last' = [op |-> "flushPage"]

\* BufferPoolManager::flushAllPages()
FlushAllPages ==
    /\ Running
    /\ Commit(flushAllPages(Mem))
    /\ UNCHANGED tables
    /\ last' = [op |-> "flushAllPages"]

----------------------------------------------------------------------------
(* The inputs the calls are made with, and the bounds of the exploration. *)

TableNames == {"t"}

\* a string that fits, and one longer than the fixed width holds
ValuesOf(type) ==
    CASE type = "STRING" -> {StrV(<<1>>), StrV(<<2, 1, 2>>)}
      [] type = "BOOL" -> {BoolV(FALSE), BoolV(TRUE)}
      [] OTHER -> {IntV(type, 1), IntV(type, 2)}

\* the columns that exist, as <<table, column>>
Columns ==
    {x \in (DOMAIN tables) \X {"a", "b"} : x[2] \in DOMAIN tables[x[1]].columns}

Col(x) == tables[x[1]].columns[x[2]]

Size(x) == Col(x).total_records

\* the first record-id of each page a column has records on
PageFirsts(x) ==
    {r \in 0..(Size(x) - 1) : r % records_per_page(Col(x).type) = 0}

----------------------------------------------------------------------------
(* The index-level specification: one table with one int32 column, which   *)
(* is appended to and queried through getColumn.                           *)

MaxAppends == 5

NextIndex ==
    \/ \E t \in TableNames : CreateTable(t)
    \/ \E t \in TableNames : AddColumn(t, "a", "INT32")
    \/ \E x \in Columns : \E v \in ValuesOf(Col(x).type) :
          Size(x) < MaxAppends /\ ColumnAppend(x[1], x[2], v)
    \/ \E x \in Columns : \E r \in PageFirsts(x) : Get(x[1], x[2], r)
    \/ \E x \in Columns : \E v \in ValuesOf(Col(x).type) : FindRecords(x[1], x[2], v)
    \/ \E x \in Columns : \E lo, hi \in ValuesOf(Col(x).type) :
          compareValues(lo, hi) <= 0 /\ FindRecordsInRange(x[1], x[2], lo, hi)
    \/ \E x \in Columns : Sum(x[1], x[2])
    \/ Optimize

SpecIndex == Init /\ [][NextIndex]_vars

----------------------------------------------------------------------------
(* The table-level specification: one table with an int32 column a and a   *)
(* string or bool column b, added at any time, filled row by row.          *)

MaxRows == 2

\* rows with and without a value for column a, with a key that names no
\* column, and with a value for b of either type b can have
RowInputs ==
    {[a |-> IntV("INT32", 1), b |-> StrV(<<1>>)],
     [a |-> IntV("INT32", 2), b |-> StrV(<<2, 1, 2>>)],
     [a |-> IntV("INT32", 1), b |-> BoolV(TRUE)],
     [b |-> BoolV(TRUE), z |-> IntV("INT32", 1)]}

Next ==
    \/ \E t \in TableNames : CreateTable(t)
    \/ \E t \in TableNames : AddColumn(t, "a", "INT32")
    \/ \E t \in TableNames, type \in {"STRING", "BOOL"} : AddColumn(t, "b", type)
    \/ \E t \in DOMAIN tables, row \in RowInputs :
          /\ tables[t].row_count < MaxRows
          /\ \A x \in Columns : Size(x) < MaxRows
          /\ InsertRow(t, row)
    \/ \E x \in Columns : \E r \in PageFirsts(x) : Get(x[1], x[2], r)
    \/ Optimize

Spec == Init /\ [][Next]_vars

----------------------------------------------------------------------------
(* The string-index specification: one table with one string column,       *)
(* which is appended to and queried through getColumn.                     *)

MaxStringAppends == 3

NextString ==
    \/ \E t \in TableNames : CreateTable(t)
    \/ \E t \in TableNames : AddColumn(t, "a", "STRING")
    \/ \E x \in Columns : \E v \in ValuesOf(Col(x).type) :
          Size(x) < MaxStringAppends /\ ColumnAppend(x[1], x[2], v)
    \/ \E x \in Columns : \E r \in PageFirsts(x) : Get(x[1], x[2], r)
    \/ \E x \in Columns : \E v \in ValuesOf(Col(x).type) : FindRecords(x[1], x[2], v)
    \/ \E x \in Columns : \E lo, hi \in ValuesOf(Col(x).type) :
          compareValues(lo, hi) <= 0 /\ FindRecordsInRange(x[1], x[2], lo, hi)

SpecString == Init /\ [][NextString]_vars

----------------------------------------------------------------------------
(* The aggregate specification: one table with one column of any of the    *)
(* types a column is created with, appended to, summed and averaged.  An   *)
(* integer column grows past its first page.                               *)

MaxSumAppends == 9

\* an int64 column is given a value no double holds
AggregateValues(type) ==
    IF type = "INT64" THEN {IntV(type, 2), IntV(type, 2 ^ DOUBLE_DIGITS + 1)}
    ELSE ValuesOf(type)

\* an int32 column grows past its first page; a table is dropped, and made
\* again over the pages it left, while it holds one record at most
NextAggregate ==
    \/ \E t \in TableNames : CreateTable(t)
    \/ \E t \in TableNames, type \in {"INT32", "INT64", "STRING", "BOOL"} :
          AddColumn(t, "a", type)
    \/ \E x \in Columns : \E v \in AggregateValues(Col(x).type) :
          /\ Size(x) < (IF Col(x).type = "INT32" THEN MaxSumAppends ELSE MaxStringAppends)
          /\ ColumnAppend(x[1], x[2], v)
    \/ \E x \in Columns : Sum(x[1], x[2])
    \/ \E x \in Columns : Average(x[1], x[2])
    \/ \E t \in DOMAIN tables :
          /\ next_page_id <= 2
          /\ \A x \in Columns : x[1] = t => Size(x) <= 1
          /\ DropTable(t)

SpecAggregate == Init /\ [][NextAggregate]_vars

----------------------------------------------------------------------------
(* The column-level specification: one table with an int32 column a and a  *)
(* string or bool column b, each appended to on its own through getColumn, *)
(* also with values of another type than the column's.                     *)

MaxColumnAppends == 3

ColumnInputs == ValuesOf("INT32") \cup {BoolV(TRUE), StrV(<<1>>)}

NextColumns ==
    \/ \E t \in TableNames : CreateTable(t)
    \/ \E t \in TableNames : AddColumn(t, "a", "INT32")
    \/ \E t \in TableNames, type \in {"STRING", "BOOL"} : AddColumn(t, "b", type)
    \/ \E x \in Columns : \E v \in ColumnInputs :
          Size(x) < MaxColumnAppends /\ ColumnAppend(x[1], x[2], v)

SpecColumns == Init /\ [][NextColumns]_vars

----------------------------------------------------------------------------
(* The query-level specification: one table with an int32 column a and a   *)
(* bool column b, filled row by row and read through the two selects.      *)

MaxSelectRows == 2

\* two rows with the same a and different b, and a row with another a
SelectRows ==
    {[a |-> IntV("INT32", 1), b |-> BoolV(TRUE)],
     [a |-> IntV("INT32", 1), b |-> BoolV(FALSE)],
     [a |-> IntV("INT32", 2), b |-> BoolV(TRUE)]}

\* no projection, both columns in another order than declared, and a
\* projection of one column and a name the table has no column for
Projections == {<<>>, <<"b", "a">>, <<"b", "z">>}

\* the keys a select on a column is asked for; z is no column
SelectKeys(t, c) ==
    IF c \in DOMAIN tables[t].columns THEN ValuesOf(tables[t].columns[c].type)
    ELSE {IntV("INT32", 1)}

NextSelect ==
    \/ \E t \in TableNames : CreateTable(t)
    \/ \E t \in TableNames : AddColumn(t, "a", "INT32")
    \/ \E t \in TableNames : AddColumn(t, "b", "BOOL")
    \/ \E t \in DOMAIN tables, row \in SelectRows :
          /\ tables[t].row_count < MaxSelectRows
          /\ \A x \in Columns : Size(x) < MaxSelectRows
          /\ InsertRow(t, row)
    \/ \E t \in DOMAIN tables, c \in {"a", "b", "z"}, p \in Projections :
          \E v \in SelectKeys(t, c) : IndexedSelect(t, c, v, p)
    \/ \E t \in DOMAIN tables, c \in {"a", "z"}, p \in Projections :
          \E lo, hi \in SelectKeys(t, c) :
              compareValues(lo, hi) <= 0 /\ RangeSelect(t, c, lo, hi, p)

SpecSelect == Init /\ [][NextSelect]_vars

----------------------------------------------------------------------------
(* The node-level specification: the nodes of one index, of one key type,  *)
(* are saved to two pages of its file and read back.                       *)

NodeFile == IndexFile("t", "a")

NodePages == {1, 2}

\* the sorted key vectors of at most BTREE_ORDER - 1 keys
NodeKeys(type) ==
    {k \in UNION {[1..n -> ValuesOf(type)] : n \in 0..max_keys} :
        \A i \in 1..(Len(k) - 1) : compareValues(k[i], k[i + 1]) <= 0}

\* the consistent nodes: leaves with one record-id per key, with and
\* without a next leaf, and internal nodes with one child more than keys
NodeInputs(type) ==
    {[is_leaf |-> TRUE, keys |-> k, children |-> <<>>,
      records |-> [i \in 1..Len(k) |-> i], next_leaf |-> n] :
        k \in NodeKeys(type), n \in {0, 2}}
    \cup {[is_leaf |-> FALSE, keys |-> k, children |-> [i \in 1..(Len(k) + 1) |-> i],
           records |-> <<>>, next_leaf |-> 0] : k \in NodeKeys(type)}

NextNode ==
    \/ \E type \in {"INT32", "STRING", "BOOL"}, p \in NodePages :
          \E node \in NodeInputs(type) :
              /\ (IF last.op = "new" THEN TRUE ELSE last.type = type)
              /\ SaveNode(NodeFile, type, p, node)
    \/ \E p \in NodePages : GetNode(NodeFile, p)

SpecNode == Init /\ [][NextNode]_vars

----------------------------------------------------------------------------
(* The bulk-load specification: one table with an int32 column, filled by  *)
(* insertRow and by bulkInsert with up to MaxBulkRows rows a call.         *)

MaxBulkRows == 3

MaxBulkTotal == 4

\* rows for column a, the last with a value that makes the append throw
BulkRows == {[a |-> IntV("INT32", 1)], [a |-> IntV("INT32", 2)], [a |-> BoolV(TRUE)]}

NextBulk ==
    \/ \E t \in TableNames : CreateTable(t)
    \/ \E t \in TableNames : AddColumn(t, "a", "INT32")
    \/ \E t \in DOMAIN tables, row \in BulkRows :
          /\ tables[t].row_count < MaxBulkTotal
          /\ \A x \in Columns : Size(x) < MaxBulkTotal
          /\ InsertRow(t, row)
    \/ \E t \in DOMAIN tables, n \in 1..MaxBulkRows :
          \E rows \in [1..n -> BulkRows] :
              /\ tables[t].row_count + n <= MaxBulkTotal
              /\ \A x \in Columns : Size(x) + n <= MaxBulkTotal
              /\ BulkInsert(t, rows)

SpecBulk == Init /\ [][NextBulk]_vars

----------------------------------------------------------------------------
(* The re-creation specification: a table with one column is filled,       *)
(* dropped and made again under the same names, over the pages and files   *)
(* the dropped table left.                                                 *)

MaxRecreateAppends == 2

\* the table is dropped while the index pages handed out are at most this many
MaxRecreateIds == 2

NextRecreate ==
    \/ \E t \in TableNames : CreateTable(t)
    \/ \E t \in TableNames, type \in {"INT32", "STRING"} : AddColumn(t, "a", type)
    \/ \E x \in Columns : \E v \in ValuesOf(Col(x).type) :
          /\ Size(x) < (IF Col(x).type = "STRING" THEN 1 ELSE MaxRecreateAppends)
          /\ ColumnAppend(x[1], x[2], v)
    \/ \E x \in Columns : \E v \in ValuesOf(Col(x).type) : FindRecords(x[1], x[2], v)
    \/ \E x \in Columns : Sum(x[1], x[2])
    \/ Optimize
    \/ \E t \in DOMAIN tables : next_page_id <= MaxRecreateIds /\ DropTable(t)

SpecRecreate == Init /\ [][NextRecreate]_vars

----------------------------------------------------------------------------
(* The database-level specification: tables of two names are created,      *)
(* given an int32 column, filled and dropped.  A table is dropped while     *)
(* no more index pages have been allocated than there are names, which      *)
(* bounds the page counter.                                                *)

DatabaseNames == {"t", "u"}

MaxTableRows == 1

NextDatabase ==
    \/ \E t \in DatabaseNames : CreateTable(t)
    \/ \E t \in DatabaseNames : next_page_id <= Cardinality(DatabaseNames) /\ DropTable(t)
    \/ \E t \in DOMAIN tables : AddColumn(t, "a", "INT32")
    \/ \E t \in DOMAIN tables, v \in ValuesOf("INT32") :
          /\ tables[t].row_count < MaxTableRows
          /\ InsertRow(t, [a |-> v])
    \/ Optimize
    \/ Teardown

SpecDatabase == Init /\ [][NextDatabase]_vars

----------------------------------------------------------------------------
(* The pool-level specification: the buffer pool called directly, on the   *)
(* pages of two files.                                                     *)

\* twice as many pages as the pool holds
PoolKeys == {DataFile("t", "a"), IndexFile("t", "a")} \X {0, 1}

NextPool ==
    \/ \E key \in PoolKeys : FetchPage(key)
    \/ \E key \in PoolKeys, v \in {1, 2} : FetchAndStore(key, v)
    \/ \E key \in PoolKeys : FlushPage(key)
    \/ FlushAllPages

SpecPool == Init /\ [][NextPool]_vars

----------------------------------------------------------------------------
(* Properties. *)

\* the value appended under record-id r of column x
Appended(x, r) == hist[x][r + 1]

RecordIds(x) == 0..(Size(x) - 1)

\* what a column keeps of a value: of a string the first STRING_SIZE - 1
\* characters, up to the first NUL; any other value as it is
StoredForm(v) ==
    IF v.tag # "STRING" THEN v
    ELSE LET n == IF Len(v.val) < STRING_SIZE - 1 THEN Len(v.val) ELSE STRING_SIZE - 1
             nul == {i \in 1..n : v.val[i] = 0}
         IN  StrV(SubSeq(v.val, 1, IF nul = {} THEN n ELSE MinOf(nul) - 1))

\* what get(r) on column x returns in memory M with the tables tbls
GetIn(M, tbls, x, r) == get(M, x[1], x[2], tbls[x[1]].columns[x[2]], r).value

GetValue(x, r) == GetIn(Mem, tables, x, r)

\* the data page of record r of column x
DataKey(x, r) == <<DataFile(x[1], x[2]), r \div records_per_page(Col(x).type)>>

Resident(x, r) == DataKey(x, r) \in DOMAIN pool

Found(x, v) == findRecords(Mem, x[1], x[2], Col(x), v, NoUB).records

InRange(x, lo, hi) == findRecordsInRange(Mem, x[1], x[2], Col(x), lo, hi, NoUB).records

Range(s) == {s[i] : i \in DOMAIN s}

\* C2: find_records(v) returns exactly the record-ids whose appended value
\* equals v, none missing, none extra, none repeated, after any number of
\* appends.
C2_FindRecordsExact ==
    Running => \A x \in Columns : \A v \in ValuesOf(Col(x).type) :
        /\ Range(Found(x, v)) = {r \in RecordIds(x) : ValEq(Appended(x, r), v)}
        /\ Len(Found(x, v)) = Cardinality(Range(Found(x, v)))

\* C3: find_records_in_range(lo, hi) with lo <= hi returns every record-id
\* whose appended value lies in [lo, hi], none whose value lies outside, and
\* none twice.
C3_RangeExact ==
    Running => \A x \in Columns : \A lo, hi \in ValuesOf(Col(x).type) :
        compareValues(lo, hi) <= 0 =>
            /\ Range(InRange(x, lo, hi))
                 = {r \in RecordIds(x) : /\ compareValues(lo, Appended(x, r)) <= 0
                                         /\ compareValues(Appended(x, r), hi) <= 0}
            /\ Len(InRange(x, lo, hi)) = Cardinality(Range(InRange(x, lo, hi)))

\* C4: find_records(v) returns the record-ids of v in ascending record-id
\* order (equal keys stay in insertion order).
C4_FindRecordsAscending ==
    Running => \A x \in Columns : \A v \in ValuesOf(Col(x).type) :
        \A i, j \in DOMAIN Found(x, v) : i < j => Found(x, v)[i] < Found(x, v)[j]

\* the results find_records_in_range can return: one, unless the walk reads
\* past the end of a page, and then one per outcome that returns
RangeResults(x, lo, hi) ==
    LET res == Outcomes(LAMBDA ub : findRecordsInRange(Mem, x[1], x[2], Col(x), lo, hi, ub))
    IN  {r.records : r \in {q \in res : q.M.fault = "none"}}

\* C5: the record-ids find_records_in_range(lo, hi) returns are record-ids
\* of the column, in non-decreasing order of the values appended under them.
C5_RangeInKeyOrder ==
    Running => \A x \in Columns : \A lo, hi \in ValuesOf(Col(x).type) :
        compareValues(lo, hi) <= 0 =>
            \A recs \in RangeResults(x, lo, hi) :
                /\ Range(recs) \subseteq RecordIds(x)
                /\ \A i, j \in DOMAIN recs :
                      i < j => compareValues(Appended(x, recs[i]), Appended(x, recs[j])) <= 0

\* C6: after every completed insert_row, bulk_insert or add_column, all
\* columns of the table have the same size(), equal to the table's row_count.
C6_ColumnsEqualRowCount ==
    (/\ Running
     /\ last.op \in {"insertRow", "bulkInsert", "addColumn"}
     /\ ~last.threw)
    => \A x \in Columns : x[1] = last.table => Size(x) = tables[x[1]].row_count

\* the defaults by type: 0 for numerics, the empty string, false
ZeroOf(type) ==
    CASE type = "STRING" -> [tag |-> "STRING", val |-> <<>>]
      [] type = "BOOL" -> [tag |-> "BOOL", val |-> <<0>>]
      [] OTHER -> [tag |-> type, val |-> <<0>>]

\* C7: add_column on a table with n > 0 rows returns with the new column
\* holding exactly n records, get(r) on it returns the type's default for
\* every r below n, and the existing columns keep their sizes and contents.
C7_AddColumnBackfills ==
    [][\A t \in DOMAIN tables :
        (/\ last'.op = "addColumn"
         /\ last'.table = t
         /\ ~last'.threw
         /\ fault' = "none"
         /\ tables[t].row_count > 0)
        => /\ tables'[t].columns[last'.column].total_records = tables[t].row_count
           /\ \A r \in 0..(tables[t].row_count - 1) :
                 ValEq(get(Mem', t, last'.column, tables'[t].columns[last'.column], r).value,
                       ZeroOf(tables'[t].columns[last'.column].type))
           /\ tables'[t].row_count = tables[t].row_count
           /\ \A x \in Columns :
                 /\ Size(x)' = Size(x)
                 /\ \A r \in RecordIds(x) :
                       GetIn(Mem', tables', x, r) = GetIn(Mem, tables, x, r)]_vars

\* a column was added to a table with rows and non-default values in another
\* column
C7_Witness ==
    /\ Running
    /\ last.op = "addColumn"
    /\ ~last.threw
    /\ tables[last.table].row_count > 0
    /\ Size(<<last.table, last.column>>) = tables[last.table].row_count
    /\ \E x \in Columns : \E r \in RecordIds(x) :
          x[2] # last.column /\ ~ValEq(GetValue(x, r), ZeroOf(Col(x).type))

\* C8: the number of pages resident in the buffer pool, over all files, is
\* at most BUFFER_POOL_SIZE, whatever sequence of fetch_page, flush_page and
\* flush_all_pages calls is made.
C8_PoolWithinSize == Cardinality(DOMAIN pool) <= BUFFER_POOL_SIZE

\* the pool is full and a page has been evicted from it to disk
C8_Witness ==
    /\ Cardinality(DOMAIN pool) = BUFFER_POOL_SIZE
    /\ last.op \in {"fetchPage", "store"}
    /\ \E key \in DOMAIN disk : key \notin DOMAIN pool

\* C9: immediately after flush_all_pages (and optimize) no resident page is
\* dirty, every page that was dirty has been written to disk exactly once,
\* no other page has been written, and the resident pages and their LRU
\* order are unchanged.
C9_FlushAllPages ==
    [][last'.op \in {"flushAllPages", "optimize"}
        => /\ \A key \in DOMAIN pool' : ~pool'[key].is_dirty
           /\ DOMAIN writes' = DirtyKeys(Mem)
           /\ \A key \in DOMAIN writes' : writes'[key] = 1 /\ disk'[key] = pool[key].data
           /\ DOMAIN pool' = DOMAIN pool
           /\ \A key \in DOMAIN pool : pool'[key].data = pool[key].data
           /\ lru_list' = lru_list
           /\ lru_map' = lru_map]_vars

\* flush_all_pages has just written every resident page, more than one
C9_Witness ==
    /\ last.op \in {"flushAllPages", "optimize"}
    /\ DOMAIN writes = DOMAIN pool
    /\ Cardinality(DOMAIN writes) > 1

\* C10: a value written by append survives its page being forced through
\* disk: across every call that takes the page of a record out of the pool,
\* or brings it back in, get of the record returns the same value, and while
\* the page is out of the pool get returns what the page on disk holds.
C10_SurvivesDisk ==
    [][\A x \in Columns : \A r \in RecordIds(x) :
        (/\ fault' = "none"
         /\ (DataKey(x, r) \in DOMAIN pool) # (DataKey(x, r) \in DOMAIN pool'))
        => /\ GetIn(Mem', tables', x, r) = GetIn(Mem, tables, x, r)
           /\ DataKey(x, r) \notin DOMAIN pool'
              => GetIn(Mem', tables', x, r)
                   = readValueFromPage(readPage(Mem', DataKey(x, r)), Col(x).type,
                                       r % records_per_page(Col(x).type))]_vars

\* a page holding an appended, non-default value has been evicted, and the
\* pool is filled with pages of other files
C10_Witness ==
    /\ Running
    /\ \E x \in Columns : \E r \in RecordIds(x) :
          /\ ~Resident(x, r)
          /\ ~ValEq(Appended(x, r), ZeroOf(Col(x).type))
          /\ Cardinality(DOMAIN pool) = BUFFER_POOL_SIZE
          /\ \A key \in DOMAIN pool : key[1] # DataFile(x[1], x[2])

\* C11: eviction is strict LRU over all (file, page-id) pairs.  After every
\* fetch_page the pool's LRU order is the order of the resident pages by
\* their last fetch_page, the fetched page first; a fetch of a resident
\* page evicts nothing, a fetch of a non-resident page evicts nothing while
\* the pool has room, and with the pool full it evicts exactly the resident
\* page whose last fetch_page is the oldest.
C11_StrictLRU ==
    [][last'.op \in {"fetchPage", "store"}
        => /\ recent' # <<>>
           /\ lru_list' = recent'
           /\ lru_list'[1] \in DOMAIN pool'
           /\ DOMAIN pool'
                = IF recent'[1] \in DOMAIN pool THEN DOMAIN pool
                  ELSE IF Cardinality(DOMAIN pool) < BUFFER_POOL_SIZE
                  THEN DOMAIN pool \cup {recent'[1]}
                  ELSE (DOMAIN pool \ {recent[Len(recent)]}) \cup {recent'[1]}]_vars

\* a fetch has just evicted a dirty page from the full pool, and the page it
\* kept is one that was fetched again after the evicted one was admitted:
\* the kept page is on disk, so it was resident and written before
C11_Witness ==
    /\ last.op = "fetchPage"
    /\ Len(recent) = BUFFER_POOL_SIZE
    /\ writes # EmptyMap
    /\ \A key \in DOMAIN writes : key \notin DOMAIN pool
    /\ recent[Len(recent)] \in DOMAIN disk

\* C12: whenever a dirty page is evicted, its current bytes are written to
\* disk at (file, page-id), once, and a clean page is evicted without any
\* disk write: its image on disk stays as it was.
C12_EvictWritesDirty ==
    [][\A key \in DOMAIN pool \ DOMAIN pool' :
        IF pool[key].is_dirty
        THEN /\ key \in DOMAIN writes'
             /\ writes'[key] = 1
             /\ disk'[key] = pool[key].data
        ELSE /\ key \notin DOMAIN writes'
             /\ readPage(Mem', key) = readPage(Mem, key)
             /\ (key \in DOMAIN disk') = (key \in DOMAIN disk)]_vars

\* a fetch has just evicted a page that had been stored to, and the bytes
\* stored are now its image on disk
C12_Witness ==
    /\ last.op \in {"fetchPage", "store"}
    /\ \E key \in DOMAIN writes : key \notin DOMAIN pool /\ disk[key] # ZeroPage

\* the arithmetic sum of a sequence of integer values
RECURSIVE SumOf(_)
SumOf(values) == IF values = <<>> THEN 0 ELSE Head(values).val[1] + SumOf(Tail(values))

\* the sum of a sequence of integer values taken in doubles, one by one
RECURSIVE DoubleSumOf(_, _)
DoubleSumOf(values, result) ==
    IF values = <<>> THEN result
    ELSE DoubleSumOf(Tail(values), DAdd(result, ToDouble(Head(values).val[1])))

\* no value and no partial sum of the sequence exceeds what a double counts
\* to without a gap
CountsExactly(values) ==
    \A i \in 1..Len(values) :
        /\ values[i].val[1] \in 0..(2 ^ DOUBLE_DIGITS)
        /\ SumOf(SubSeq(values, 1, i)) <= 2 ^ DOUBLE_DIGITS

\* the column the last call was made on
LastColumn == <<last.table, last.column>>

IsInteger(x) == Col(x).type \in {"INT32", "INT64"}

\* C13 (as claimed): for an integer column sum() equals the arithmetic sum
\* of the appended values, for a string or bool column it is 0.
C13_SumIsArithmeticSum ==
    (Running /\ last.op = "sum")
    => last.value = IF IsInteger(LastColumn) THEN SumOf(hist[LastColumn]) ELSE 0

\* C13 (amended): for an integer column sum() is the sum of the appended
\* values taken in double arithmetic, each value converted to a double and
\* added in record-id order, over the records below total_records only; it
\* equals the arithmetic sum while no value and no partial sum exceeds
\* 2^DOUBLE_DIGITS.  For a string or bool column sum() is 0.
C13_SumInDoubles ==
    (Running /\ last.op = "sum")
    => IF IsInteger(LastColumn)
       THEN /\ last.value = DoubleSumOf(hist[LastColumn], 0)
            /\ CountsExactly(hist[LastColumn]) => last.value = SumOf(hist[LastColumn])
       ELSE last.value = 0

\* sum has just returned the arithmetic sum of an integer column whose last
\* page is partly filled, the slots behind its records holding what an
\* earlier column of the same name left there
C13_Witness ==
    /\ Running
    /\ last.op = "sum"
    /\ IsInteger(LastColumn)
    /\ Size(LastColumn) > 0
    /\ last.value = SumOf(hist[LastColumn])
    /\ \E i \in (Size(LastColumn) + 1)..PAGE_SIZE :
          PageData(Mem, <<DataFile(last.table, last.column), 0>>)[i] # 0

Abs(n) == IF n < 0 THEN 0 - n ELSE n

\* C14: average() on a column with no records returns 0 without dividing
\* and without fetching any page: the pool, its LRU order and the disk are
\* as before.  On a column with n > 0 records it returns sum() divided by n,
\* the double nearest to the quotient, and touches the pages sum() touches.
C14_Average ==
    [][last'.op = "average"
        => IF Size(<<last'.table, last'.column>>) = 0
           THEN /\ last'.value = <<0, 0>>
                /\ pool' = pool
                /\ lru_list' = lru_list
                /\ recent' = recent
                /\ disk' = disk
                /\ writes' = EmptyMap
           ELSE \E n \in {Size(<<last'.table, last'.column>>)} :
                \E s \in {sum(Mem, last'.table, last'.column,
                               Col(<<last'.table, last'.column>>))} :
                    /\ last'.value = DDiv(s.value, n)
                    /\ last'.value[2] >= 0
                    /\ 2 * Abs(last'.value[1] * n - s.value * 2 ^ last'.value[2])
                         <= n * ScaleDown(s.value, n)
                    /\ pool' = s.M.pool
                    /\ lru_list' = s.M.lru_list]_vars

\* average has just returned 0 for a column without records, in a pool that
\* holds pages the column could have fetched
C14_Witness ==
    /\ Running
    /\ last.op = "average"
    /\ Size(LastColumn) = 0
    /\ last.value = <<0, 0>>
    /\ <<DataFile(last.table, last.column), 0>> \in DOMAIN pool

\* C15: each append that returns gives back the column's size() from just
\* before the call, which is the number of appends that returned on this
\* column before, and increases size() by exactly 1; an append that throws
\* leaves size() as it was; no append changes the size of another column.
\* The record-ids returned on one column are therefore 0, 1, 2, ... with no
\* gap and no repeat.
C15_RecordIds ==
    [][(last'.op = "append" /\ fault' = "none")
        => /\ IF last'.threw
              THEN tables'[last'.table].columns[last'.column].total_records
                     = tables[last'.table].columns[last'.column].total_records
              ELSE /\ last'.record_id
                        = tables[last'.table].columns[last'.column].total_records
                   /\ last'.record_id = Len(hist[<<last'.table, last'.column>>])
                   /\ tables'[last'.table].columns[last'.column].total_records
                        = last'.record_id + 1
           /\ \A x \in Columns :
                 x # <<last'.table, last'.column>>
                 => tables'[x[1]].columns[x[2]].total_records = Size(x)]_vars

\* an append has just returned a record-id above 0 on a column, the other
\* column holding more records
C15_Witness ==
    /\ Running
    /\ last.op = "append"
    /\ ~last.threw
    /\ last.record_id > 0
    /\ last.record_id = Size(LastColumn) - 1
    /\ \E x \in Columns : x # LastColumn /\ Size(x) > Size(LastColumn)

\* what insert_row is to append to column c of type type for the row
CellFor(row_data, c, type) == IF c \in DOMAIN row_data THEN row_data[c] ELSE ZeroOf(type)

\* C16: an insert_row that returns has appended exactly one record to every
\* column of the table, the supplied value where the row map has the
\* column's name and the type's default otherwise, has visited the columns
\* in declared order (the column declared last was accessed last), has
\* incremented row_count by exactly 1 and has ignored the keys of the row
\* map that name no column.
C16_InsertRow ==
    [][(last'.op = "insertRow" /\ ~last'.threw /\ fault' = "none")
        => /\ tables'[last'.table].row_count = tables[last'.table].row_count + 1
           /\ tables'[last'.table].column_order = tables[last'.table].column_order
           /\ DOMAIN tables'[last'.table].columns = DOMAIN tables[last'.table].columns
           /\ \A c \in DOMAIN tables[last'.table].columns :
                 /\ tables'[last'.table].columns[c].total_records
                      = tables[last'.table].columns[c].total_records + 1
                 /\ tables'[last'.table].columns[c].type
                      = tables[last'.table].columns[c].type
                 /\ hist'[<<last'.table, c>>]
                      = Append(hist[<<last'.table, c>>],
                               CellFor(last'.row, c, tables[last'.table].columns[c].type))
                 /\ GetIn(Mem', tables', <<last'.table, c>>,
                          tables[last'.table].columns[c].total_records)
                      = StoredForm(CellFor(last'.row, c,
                                           tables[last'.table].columns[c].type))
           /\ tables[last'.table].column_order # <<>>
              => /\ recent'[1][1][1] = last'.table
                 /\ recent'[1][1][2]
                      = tables[last'.table].column_order[Len(tables[last'.table].column_order)]
          ]_vars

\* insert_row has just returned on a table of two columns for a row that
\* names b and a key that is no column: a took its default, b the value
C16_Witness ==
    /\ Running
    /\ last.op = "insertRow"
    /\ ~last.threw
    /\ DOMAIN last.row = {"b", "z"}
    /\ Len(tables[last.table].column_order) = 2
    /\ tables[last.table].row_count = 2
    /\ Appended(<<last.table, "a">>, 1) = ZeroOf("INT32")
    /\ Appended(<<last.table, "b">>, 1) = last.row["b"]

\* the column names of a table are unique: column_order lists every column
\* of the table exactly once
UniqueColumns(table) ==
    /\ {table.column_order[i] : i \in DOMAIN table.column_order} = DOMAIN table.columns
    /\ \A i, j \in DOMAIN table.column_order :
          table.column_order[i] = table.column_order[j] => i = j

\* C17: add_column fails exactly when the table has a column of that name,
\* and the failed call changes nothing: the tables with their column lists,
\* columns, sizes and row_count, the values appended, the buffer pool with
\* its LRU order, the disk and the page counter are as before, no page was
\* fetched or written.  Column names in a table are always unique.
C17_DuplicateColumn ==
    [][last'.op = "addColumn"
        => /\ last'.threw = (last'.column \in DOMAIN tables[last'.table].columns)
           /\ last'.threw
              => /\ tables' = tables
                 /\ hist' = hist
                 /\ pool' = pool
                 /\ lru_list' = lru_list
                 /\ lru_map' = lru_map
                 /\ recent' = recent
                 /\ disk' = disk
                 /\ writes' = EmptyMap
                 /\ next_page_id' = next_page_id
                 /\ fault' = fault
           /\ \A t \in DOMAIN tables' : UniqueColumns(tables'[t])]_vars

\* add_column has just failed on a table that holds rows in two columns,
\* with pages in the pool
C17_Witness ==
    /\ last.op = "addColumn"
    /\ last.threw
    /\ tables[last.table].row_count > 0
    /\ Len(tables[last.table].column_order) = 2
    /\ pool # EmptyMap

\* C18: create_table with a name that is already registered fails and
\* leaves the existing table untouched, with everything else; create_table
\* with another name registers an empty table under it and leaves the other
\* tables alone.  get_table returns a table exactly for the names created
\* and not dropped since: the set of names it answers for grows by the name
\* created, shrinks by the name dropped, and is changed by no other call.
C18_CreateTable ==
    [][/\ last'.op = "createTable"
          => /\ last'.threw = getTable(tables, last'.table).found
             /\ getTable(tables', last'.table).found
             /\ last'.threw => tables' = tables
             /\ ~last'.threw => getTable(tables', last'.table).table = NewTable
             /\ \A n \in DatabaseNames \ {last'.table} :
                   getTable(tables', n) = getTable(tables, n)
             /\ hist' = hist
             /\ pool' = pool
             /\ lru_list' = lru_list
             /\ disk' = disk
       /\ last'.op = "dropTable"
          => /\ ~getTable(tables', last'.table).found
             /\ \A n \in DatabaseNames \ {last'.table} :
                   getTable(tables', n) = getTable(tables, n)
       /\ last'.op \notin {"createTable", "dropTable"}
          => \A n \in DatabaseNames :
                getTable(tables', n).found = getTable(tables, n).found]_vars

\* create_table has just failed for a table that holds a row, while the
\* other name is not registered
C18_Witness ==
    /\ last.op = "createTable"
    /\ last.threw
    /\ getTable(tables, last.table).found
    /\ getTable(tables, last.table).table.row_count > 0
    /\ \E n \in DatabaseNames : ~getTable(tables, n).found

\* C19: on teardown every page that is dirty at that moment is written to
\* disk, once and with its bytes, before the files are closed; after
\* teardown the image on disk of every resident page, and of every page
\* that was ever stored to in memory, equals its last in-memory content.
C19_Teardown ==
    [][last'.op = "teardown"
        => /\ closed'
           /\ DOMAIN writes' = DirtyKeys(Mem)
           /\ \A key \in DirtyKeys(Mem) :
                 writes'[key] = 1 /\ disk'[key] = pool[key].data
           /\ \A key \in DOMAIN pool : readPage(Mem', key) = pool[key].data
           /\ \A key \in DOMAIN content' : readPage(Mem', key) = content'[key]]_vars

\* the database has been torn down with a dirty page and a clean page in
\* the pool, after a page that had been stored to was evicted
C19_Witness ==
    /\ last.op = "teardown"
    /\ closed
    /\ Cardinality(DOMAIN pool) = BUFFER_POOL_SIZE
    /\ Cardinality(DOMAIN writes) = 1
    /\ \E key \in DOMAIN content : key \notin DOMAIN pool

\* the record-ids the index lookup of a select answers with, asked for on
\* its own in the state the select starts in
SelectedIds(sel) ==
    IF sel.column \notin DOMAIN tables[sel.table].columns THEN <<>>
    ELSE IF sel.op = "indexedSelect"
    THEN findRecords(Mem, sel.table, sel.column, tables[sel.table].columns[sel.column],
                     sel.value, NoUB).records
    ELSE findRecordsInRange(Mem, sel.table, sel.column,
                            tables[sel.table].columns[sel.column],
                            sel.start, sel.end, NoUB).records

\* the columns a row of a select holds
SelectedColumns(sel) ==
    IF sel.cols = <<>> THEN DOMAIN tables[sel.table].columns
    ELSE Range(sel.cols) \cap DOMAIN tables[sel.table].columns

\* C20: indexed_select returns one row per record-id of find_records(key)
\* on the index column, in the same order; each row maps every projected
\* column of the table to that column's get(record-id), and every column
\* of the table when no projection is given; range_select does the same
\* over find_records_in_range(lo, hi).
C20_Select ==
    [][(last'.op \in {"indexedSelect", "rangeSelect"} /\ fault' = "none")
        => \E ids \in {SelectedIds(last')} :
             /\ Len(last'.rows) = Len(ids)
             /\ \A i \in 1..Len(ids) :
                   /\ DOMAIN last'.rows[i] = SelectedColumns(last')
                   /\ \A c \in SelectedColumns(last') :
                         last'.rows[i][c] = GetIn(Mem, tables, <<last'.table, c>>, ids[i])]_vars

\* an indexed select on a has answered with two different rows of the
\* columns b and a, asked for in that order
C20_Witness ==
    /\ last.op = "indexedSelect"
    /\ last.column = "a"
    /\ last.cols = <<"b", "a">>
    /\ Len(last.rows) = 2
    /\ DOMAIN last.rows[1] = {"a", "b"}
    /\ last.rows[1] # last.rows[2]

\* C21: indexed_select and range_select called with an index column name
\* the table has not report the miss to the caller as a failure, not as an
\* ordinary empty result, and change no engine state.
C21_MissIsFailure ==
    [][(last'.op \in {"indexedSelect", "rangeSelect"}
          /\ last'.column \notin DOMAIN tables[last'.table].columns)
        => /\ last'.threw
           /\ Mem' = Mem
           /\ tables' = tables]_vars

\* C22: when insert_row fails part-way through its columns, because an
\* append raises on a value whose variant is not the column's type, all
\* columns of the table still have equal size() afterwards, and that size
\* equals row_count.
C22_FailedInsertRowKeepsSizes ==
    [][(last'.op = "insertRow" /\ last'.threw /\ fault' = "none")
        => \A c \in DOMAIN tables'[last'.table].columns :
              tables'[last'.table].columns[c].total_records
                = tables'[last'.table].row_count]_vars

----------------------------------------------------------------------------
(* The tree of an index as its pages hold it.                              *)

\* the bytes fetchPage hands out for a page: those of the pool when the page
\* is resident, those of the disk otherwise
PageImage(M, key) == IF key \in DOMAIN M.pool THEN M.pool[key].data ELSE readPage(M, key)

\* the node getNode decodes for a page of an index file
NodeIn(M, file, page_id) == DecodeNode(PageImage(M, <<file, page_id>>), NoUB)

\* the leaf reached from page_id through the first child of each internal
\* node; 0 when there is none
RECURSIVE LeftmostLeaf(_, _, _, _)
LeftmostLeaf(M, file, page_id, fuel) ==
    IF page_id = 0 \/ fuel = 0 THEN 0
    ELSE IF NodeIn(M, file, page_id).is_leaf THEN page_id
    ELSE IF NodeIn(M, file, page_id).children = <<>> THEN 0
    ELSE LeftmostLeaf(M, file, NodeIn(M, file, page_id).children[1], fuel - 1)

\* the leaves met from page_id on along next_leaf
RECURSIVE LeafChain(_, _, _, _)
LeafChain(M, file, page_id, fuel) ==
    IF page_id = 0 \/ fuel = 0 THEN <<>>
    ELSE <<NodeIn(M, file, page_id)>>
         \o LeafChain(M, file, NodeIn(M, file, page_id).next_leaf, fuel - 1)

\* the (key, record-id) pairs of a leaf, in the order of the leaf
LeafPairs(node) ==
    [i \in 1..MinOf({Len(node.keys), Len(node.records)}) |-> <<node.keys[i], node.records[i]>>]

\* the leaves of the index of column x from the leftmost leaf under its root
ChainOf(x) ==
    LeafChain(Mem, IndexFile(x[1], x[2]),
              LeftmostLeaf(Mem, IndexFile(x[1], x[2]), Col(x).root_page_id, next_page_id),
              next_page_id)

\* C23: after any sequence of index inserts every leaf reachable from the
\* root holds at most BTREE_ORDER - 1 keys, and the walk along next_leaf
\* from the leftmost leaf under the root visits every (key, record-id) pair
\* ever inserted exactly once, in non-decreasing key order.
C23_LeafChain ==
    Running => \A x \in Columns :
        \E pairs \in {Flatten([i \in 1..Len(ChainOf(x)) |-> LeafPairs(ChainOf(x)[i])])} :
            /\ \A i \in 1..Len(ChainOf(x)) : Len(ChainOf(x)[i].keys) <= max_keys
            /\ Len(pairs) = Size(x)
            /\ Range(pairs) = {<<Appended(x, r), r>> : r \in RecordIds(x)}
            /\ \A i \in 1..(Len(pairs) - 1) : compareValues(pairs[i][1], pairs[i + 1][1]) <= 0

\* the root page of the index an append went to, before and after it
RootBefore == tables[last'.table].columns[last'.column].root_page_id

RootAfter == tables'[last'.table].columns[last'.column].root_page_id

\* the root of the index as its page holds it after the append
RootNodeAfter == NodeIn(Mem', IndexFile(last'.table, last'.column), RootAfter)

\* C24: when an insert makes the root overflow, a new node is allocated
\* and becomes the root; after the insert has returned, the root read from
\* its page is an internal node with exactly one key, the promoted key,
\* and exactly two children, the old root's page-id and the page-id of the
\* new right sibling.
C24_NewRoot ==
    [][(/\ last'.op = "append"
        /\ ~last'.threw
        /\ fault' = "none"
        /\ RootBefore # 0
        /\ RootAfter # RootBefore)
        => /\ RootAfter >= next_page_id
           /\ ~RootNodeAfter.is_leaf
           /\ Len(RootNodeAfter.keys) = 1
           /\ Len(RootNodeAfter.children) = 2
           /\ RootNodeAfter.children[1] = RootBefore
           /\ RootNodeAfter.children[2] >= next_page_id
           /\ RootNodeAfter.children[2] < RootAfter
           /\ RootNodeAfter.keys[1]
                = NodeIn(Mem', IndexFile(last'.table, last'.column),
                         RootNodeAfter.children[2]).keys[1]]_vars

\* the index file an append went to
FileAfter == IndexFile(last'.table, last'.column)

\* the leaf pages of that file that were full before the append and point
\* to a page allocated by it afterwards: the leaves the append has split
SplitLeaves ==
    {p \in 1..(next_page_id - 1) :
        /\ NodeIn(Mem, FileAfter, p).is_leaf
        /\ Len(NodeIn(Mem, FileAfter, p).keys) = max_keys
        /\ NodeIn(Mem', FileAfter, p).next_leaf >= next_page_id}

\* the leaf at page p with the appended pair inserted, as splitLeaf gets it
Overfull(p) ==
    insertIntoLeaf(NodeIn(Mem, FileAfter, p),
                   hist'[<<last'.table, last'.column>>][last'.record_id + 1],
                   last'.record_id)

\* C25: a leaf split with mid = keys.len / 2 loses and duplicates nothing:
\* the left leaf keeps keys[0..mid) and their record-ids, the new right
\* leaf holds keys[mid..] and their record-ids, left.next_leaf is the new
\* leaf, the new leaf's next_leaf is the old left.next_leaf, the promoted
\* key is the right leaf's first key, and both leaves are saved to their
\* pages.
C25_SplitLeaf ==
    [][(last'.op = "append" /\ ~last'.threw /\ fault' = "none")
        => \A p \in SplitLeaves :
             \E full \in {Overfull(p)} :
             \E left \in {NodeIn(Mem', FileAfter, p)} :
             \E right \in {NodeIn(Mem', FileAfter, left.next_leaf)} :
             \E r \in {splitLeaf(Mem, FileAfter, tables[last'.table].columns[last'.column].type,
                                  p, full, NoUB)} :
                /\ left.is_leaf /\ right.is_leaf
                /\ left.keys = SubSeq(full.keys, 1, Len(full.keys) \div 2)
                /\ left.records = SubSeq(full.records, 1, Len(full.keys) \div 2)
                /\ right.keys = SubSeq(full.keys, (Len(full.keys) \div 2) + 1, Len(full.keys))
                /\ right.records
                     = SubSeq(full.records, (Len(full.keys) \div 2) + 1, Len(full.keys))
                /\ LeafPairs(left) \o LeafPairs(right) = LeafPairs(full)
                /\ right.next_leaf = NodeIn(Mem, FileAfter, p).next_leaf
                /\ left.next_leaf = next_page_id
                /\ {<<FileAfter, p>>, <<FileAfter, left.next_leaf>>} \subseteq DOMAIN content'
                /\ r.key = right.keys[1]
                /\ r.page = left.next_leaf
                /\ NodeIn(r.M, FileAfter, p) = left
                /\ NodeIn(r.M, FileAfter, r.page) = right]_vars

\* the pages of the subtree under page_id
RECURSIVE Subtree(_, _, _, _)
Subtree(M, file, page_id, fuel) ==
    IF page_id = 0 \/ fuel = 0 THEN {}
    ELSE {page_id}
         \cup UNION {Subtree(M, file, c, fuel - 1) : c \in Range(NodeIn(M, file, page_id).children)}

\* the keys the leaves of the subtree under page_id hold
SubtreeKeys(M, file, page_id, fuel) ==
    UNION {Range(NodeIn(M, file, p).keys) :
             p \in {q \in Subtree(M, file, page_id, fuel) : NodeIn(M, file, q).is_leaf}}

\* the leaf the descent by findChildIndex from the root of column x ends in
\* for a key
LeafFor(x, key) ==
    NodeIn(Mem, IndexFile(x[1], x[2]),
           findLeaf(Mem, IndexFile(x[1], x[2]), Col(x).root_page_id, key, NoUB,
                    next_page_id).page)

\* C26: for every internal node reachable from the root and every
\* separator keys[i], all keys in the subtree at child i are less than
\* keys[i] and all keys in the subtree at child i+1 are greater than or
\* equal to it, after any sequence of inserts; and the descent by
\* find_child_index reaches the leaf that holds a searched key.
C26_Separators ==
    Running => \A x \in Columns :
        /\ \A p \in Subtree(Mem, IndexFile(x[1], x[2]), Col(x).root_page_id, next_page_id) :
              \E node \in {NodeIn(Mem, IndexFile(x[1], x[2]), p)} :
                 ~node.is_leaf =>
                    /\ Len(node.children) = Len(node.keys) + 1
                    /\ \A i \in 1..Len(node.keys) :
                          /\ \A k \in SubtreeKeys(Mem, IndexFile(x[1], x[2]),
                                                   node.children[i], next_page_id) :
                                compareValues(k, node.keys[i]) < 0
                          /\ \A k \in SubtreeKeys(Mem, IndexFile(x[1], x[2]),
                                                   node.children[i + 1], next_page_id) :
                                compareValues(k, node.keys[i]) >= 0
        /\ \A r \in RecordIds(x) :
              <<Appended(x, r), r>> \in Range(LeafPairs(LeafFor(x, Appended(x, r))))

\* C27: every node mutation is written back: when insert returns, each
\* node it created or changed (the leaf, both halves of a split, the
\* parent, a new root) has been serialized into its own page and that page
\* is marked dirty, so that decoding the page again yields the node as
\* mutated.
C27_WrittenBack ==
    [][(last'.op = "append" /\ ~last'.threw /\ fault' = "none")
        => /\ \A p \in next_page_id..(next_page_id' - 1) :
                 /\ <<FileAfter, p>> \in DOMAIN content'
                 /\ PageImage(Mem', <<FileAfter, p>>) = content'[<<FileAfter, p>>]
                 /\ <<FileAfter, p>> \in DOMAIN pool'
                    => \/ pool'[<<FileAfter, p>>].is_dirty
                       \/ readPage(Mem', <<FileAfter, p>>) = pool'[<<FileAfter, p>>].data
           /\ \E p \in 1..(next_page_id' - 1) :
                 <<hist'[<<last'.table, last'.column>>][last'.record_id + 1], last'.record_id>>
                    \in Range(LeafPairs(NodeIn(Mem', FileAfter, p)))
           /\ (RootBefore # 0 /\ RootAfter # RootBefore)
              => /\ ~RootNodeAfter.is_leaf
                 /\ RootBefore \in Range(RootNodeAfter.children)]_vars

\* the node insert hands to saveNode for the new root of a root split: the
\* node decoded from the page of the new root, with the promoted key and
\* the two children pushed onto it
NewRootSaved ==
    [NodeIn(Mem, FileAfter, RootAfter)
        EXCEPT !.keys = Append(@, NodeIn(Mem', FileAfter, RootAfter - 1).keys[1]),
               !.children = @ \o <<RootBefore, RootAfter - 1>>]

\* C28: a node found inconsistent before serialization (a leaf with
\* keys.len # records.len, an internal node with children.len #
\* keys.len + 1) is repaired by clamping and the operation continues: the
\* repaired node is still written to its page, the save is not dropped.
C28_InconsistentNodeSaved ==
    [][(/\ last'.op = "append" /\ ~last'.threw /\ fault' = "none"
        /\ RootBefore # 0 /\ RootAfter # RootBefore
        /\ ~Consistent(NewRootSaved))
        => /\ <<FileAfter, RootAfter>> \in DOMAIN content'
           /\ PageImage(Mem', <<FileAfter, RootAfter>>) = content'[<<FileAfter, RootAfter>>]
           /\ Consistent(RootNodeAfter)
           /\ <<FileAfter, RootAfter>> \in DOMAIN pool'
              => pool'[<<FileAfter, RootAfter>>].is_dirty]_vars

\* C29: node serialization round-trips: for every consistent node, leaf
\* or internal, with at most BTREE_ORDER - 1 keys, decoding the page the
\* save has written yields a node with the same is_leaf flag, keys,
\* record-ids or children, and next_leaf; a saved node's page is never all
\* zero, so only an all-zero page decodes as a fresh empty leaf; and no
\* bytes of an earlier node remain on the page.
C29_RoundTrip ==
    /\ (Running /\ last.op = "getNode")
        => last.node = IF last.page \in DOMAIN last.saved THEN last.saved[last.page]
                       ELSE NewNode(TRUE)
    /\ (Running /\ last.op \in {"saveNode", "getNode"})
        => \A p \in DOMAIN last.saved :
              /\ PageImage(Mem, <<NodeFile, p>>) # ZeroPage
              /\ NodeIn(Mem, NodeFile, p) = last.saved[p]

\* C30: for every key type a leaf or an internal node holding the maximum
\* of BTREE_ORDER - 1 keys serializes into at most PAGE_SIZE bytes, so no
\* save writes past the end of its page.
C30_NodeFitsPage ==
    [][last'.op = "saveNode"
        => /\ Len(NodeCells(last'.node, last'.type)) <= PAGE_SIZE
           /\ fault' = fault]_vars

\* C31: every page-id handed to a new B+ tree node is at least 1 and has
\* never been handed out before, also across the indexes of different
\* columns; an index's root page-id is 0 if and only if no key has ever
\* been inserted into that index.
C31_PageIds ==
    /\ \A i \in 1..Len(allocated) :
          /\ allocated[i] >= 1
          /\ \A j \in 1..Len(allocated) : allocated[i] = allocated[j] => i = j
    /\ Running => \A x \in Columns :
          /\ Col(x).root_page_id = 0 <=> hist[x] = <<>>
          /\ Col(x).root_page_id # 0 => Col(x).root_page_id \in Range(allocated)
          /\ \A y \in Columns :
                (Col(x).root_page_id # 0 /\ Col(x).root_page_id = Col(y).root_page_id) => x = y

\* two columns of a table have keys in their indexes, each under a root
\* page of its own
C31_Witness ==
    /\ Running
    /\ Len(allocated) >= 2
    /\ \E x, y \in Columns :
          /\ x # y
          /\ Col(x).root_page_id # 0
          /\ Col(y).root_page_id # 0

\* what a bulk insert that completes k rows from row_count n on is to do,
\* in order: each row, and a flush after each row that makes the row_count
\* a multiple of BULK_FLUSH_ROWS
RECURSIVE FlushPlan(_, _)
FlushPlan(n, k) ==
    IF k = 0 THEN <<>>
    ELSE <<"row">> \o (IF (n + 1) % BULK_FLUSH_ROWS = 0 THEN <<"flush">> ELSE <<>>)
         \o FlushPlan(n + 1, k - 1)

\* C32: during bulk_insert, flush_all_pages is invoked after each inserted
\* row that brings the table's row_count to a multiple of BULK_FLUSH_ROWS
\* and at no other point of the call, so the number of rows the call has
\* inserted since its last flush never exceeds BULK_FLUSH_ROWS.
C32_BulkFlush ==
    [][(last'.op = "bulkInsert" /\ fault' = "none")
        => /\ events' = FlushPlan(tables[last'.table].row_count,
                                  tables'[last'.table].row_count
                                    - tables[last'.table].row_count)
           /\ ~last'.threw
              => tables'[last'.table].row_count
                   = tables[last'.table].row_count + Len(last'.rows)
           /\ \A i \in 1..(Len(events') - BULK_FLUSH_ROWS) :
                 \E j \in i..(i + BULK_FLUSH_ROWS) : events'[j] = "flush"]_vars

\* a bulk insert of three rows that started at an odd row_count has flushed
\* after its first and after its third row
C32_Witness ==
    /\ last.op = "bulkInsert"
    /\ ~last.threw
    /\ Running
    /\ events = <<"row", "flush", "row", "row", "flush">>

\* C33: at every operation boundary every resident page whose dirty flag is
\* clear has the bytes of its on-disk image, which for a page never written
\* is all zeros.
C33_CleanIsOnDisk ==
    \A key \in DOMAIN pool :
        ~pool[key].is_dirty
          => pool[key].data = (IF key \in DOMAIN disk THEN disk[key] ELSE ZeroPage)

\* a clean resident page holds bytes that were stored and written back,
\* next to a dirty page that differs from its image on disk
C33_Witness ==
    \E key \in DOMAIN pool, other \in DOMAIN pool :
        /\ ~pool[key].is_dirty
        /\ pool[key].data # ZeroPage
        /\ key \in DOMAIN disk
        /\ pool[other].is_dirty
        /\ pool[other].data # (IF other \in DOMAIN disk THEN disk[other] ELSE ZeroPage)

\* C34: in every reachable state the page map, the LRU list and the LRU
\* position map describe the same set of pages: a page key is resident iff
\* it occurs in the list, it occurs there exactly once, and the position map
\* holds an entry for exactly these keys.
C34_LruMatchesPool ==
    /\ DOMAIN pool = Range(lru_list)
    /\ lru_map = DOMAIN pool
    /\ \A i, j \in 1..Len(lru_list) : lru_list[i] = lru_list[j] => i = j

\* the pool is full, a page written back at its eviction is in none of the
\* three, and the last fetch has moved a page that was resident and dirty
\* to the front of the list
C34_Witness ==
    /\ Cardinality(DOMAIN pool) = BUFFER_POOL_SIZE
    /\ Len(lru_list) = BUFFER_POOL_SIZE
    /\ \E key \in DOMAIN disk : key \notin DOMAIN pool /\ key \notin lru_map
    /\ last.op = "fetchPage"
    /\ pool[lru_list[1]].is_dirty

\* C35: no operation writes through a stale page handle: every store to a
\* page's bytes and dirty flag goes through the handle the latest
\* fetch_page returned, to a page that is resident, so no store is lost to
\* an eviction in between.
C35_NoStaleStore ==
    /\ ~stale
    /\ \A key \in DOMAIN content :
          key \in DOMAIN pool => pool[key].data = content[key]

\* an append has split a leaf with the pool full: its stores went to the
\* data page and to index pages while other pages were evicted
C35_Witness ==
    /\ last.op = "append"
    /\ Running
    /\ Cardinality(DOMAIN pool) = BUFFER_POOL_SIZE
    /\ \E key \in DOMAIN content : key \notin DOMAIN pool /\ key[1][3] = "data"
    /\ \E x \in Columns : Len(hist[x]) > BTREE_ORDER - 1

\* the page size and the record sizes of the source's build, in bytes
PageBytes == 4096

RecordBytes(type) ==
    CASE type \in {"INT32", "FLOAT"} -> 4
      [] type \in {"INT64", "DOUBLE"} -> 8
      [] type = "STRING" -> 256
      [] type = "BOOL" -> 1

\* the page and the slot of record r of a column of the given type
SlotOf(type, r) == <<r \div records_per_page(type), r % records_per_page(type)>>

\* the cells of the slot of record r of column x, of the given type, in
\* memory M
SlotCells(M, x, type, r) ==
    SubSeq(PageImage(M, <<DataFile(x[1], x[2]), SlotOf(type, r)[1]>>),
           SlotOf(type, r)[2] * getRecordSize(type) + 1,
           SlotOf(type, r)[2] * getRecordSize(type) + getRecordSize(type))

\* C36: record r of a column is stored at page r div rpp, slot r mod rpp
\* with rpp = floor(page size / record size): the slot of an appended record
\* lies inside its page and is the slot of no earlier record, it holds the
\* record, and the append leaves the bytes of every slot written earlier, of
\* this and of every other column, as they were; with the source's sizes
\* the last slot of a page ends inside the page for each of the six types.
C36_SlotLayout ==
    [][(last'.op = "append" /\ ~last'.threw /\ fault' = "none")
        => /\ \A type \in DataType :
                /\ PageBytes \div RecordBytes(type) >= 1
                /\ (PageBytes \div RecordBytes(type)) * RecordBytes(type) <= PageBytes
           /\ \E x \in {<<last'.table, last'.column>>} :
                /\ last'.record_id = Size(x)
                /\ SlotOf(Col(x).type, Size(x))[2] * getRecordSize(Col(x).type)
                      + getRecordSize(Col(x).type) <= PAGE_SIZE
                /\ \A q \in RecordIds(x) : SlotOf(Col(x).type, q) # SlotOf(Col(x).type, Size(x))
                /\ SlotCells(Mem', x, Col(x).type, Size(x))
                      = serializeValue(hist'[x][Size(x) + 1], Col(x).type)
           /\ \A y \in Columns : \A q \in RecordIds(y) :
                SlotCells(Mem', y, Col(y).type, q) = SlotCells(Mem, y, Col(y).type, q)]_vars

\* a string column has records on two pages, the third in the first slot
\* of the second page
C36_Witness ==
    /\ last.op = "append"
    /\ ~last.threw
    /\ Running
    /\ last.record_id = records_per_page("STRING")
    /\ tables[last.table].columns[last.column].type = "STRING"
    /\ \E y \in Columns : y # <<last.table, last.column>> /\ Size(y) > 0

\* what the caller sees of a search: the record-ids, or that the call
\* did not return
Seen(r) == IF r.M.fault = "none" THEN <<r.records, "none">> ELSE <<<<>>, r.M.fault>>

\* what column x, with the column record col, answers in memory M: its
\* size, get of every record, find_records and find_records_in_range of
\* every value, each with every outcome it can have, and sum
Answers(M, x, col) ==
    [size |-> col.total_records,
     get |-> [r \in 0..(col.total_records - 1) |-> get(M, x[1], x[2], col, r).value],
     find |-> [v \in ValuesOf(col.type) |->
                 {Seen(r) :
                    r \in Outcomes(LAMBDA ub : findRecords(M, x[1], x[2], col, v, ub))}],
     range |-> [b \in {p \in ValuesOf(col.type) \X ValuesOf(col.type) :
                         compareValues(p[1], p[2]) <= 0} |->
                 {Seen(r) :
                    r \in Outcomes(LAMBDA ub : findRecordsInRange(M, x[1], x[2], col,
                                                                  b[1], b[2], ub))}],
     sum |-> sum(M, x[1], x[2], col).value]

\* the columns the last call appended to: the one column of an append, the
\* columns of the table of an insert_row
Touched ==
    IF last'.op = "append" THEN {<<last'.table, last'.column>>}
    ELSE {x \in Columns : x[1] = last'.table}

\* C37: an append to one column changes only that column: every other
\* column, of the same table or of another, gives the same size, get(r)
\* for all r below its size, find_records, find_records_in_range and sum
\* before and after, also when the append evicts that column's pages.
C37_AppendFrame ==
    [][(last'.op \in {"append", "insertRow"} /\ fault' = "none")
        => \A y \in Columns \ Touched :
              /\ tables'[y[1]].columns[y[2]] = Col(y)
              /\ hist'[y] = hist[y]
              /\ Answers(Mem', y, Col(y)) = Answers(Mem, y, Col(y))]_vars

\* an append to one column has evicted the data page of another column that
\* holds records
C37_Witness ==
    /\ last.op = "append"
    /\ ~last.threw
    /\ Running
    /\ \E y \in Columns :
          /\ y # <<last.table, last.column>>
          /\ Size(y) > 1
          /\ DataKey(y, 0) \notin DOMAIN pool
          /\ DataKey(y, 0) \in DOMAIN disk

\* the results find_records can return: one, unless the search reads past
\* the end of a page, and then one per outcome that returns
FindResults(x, v) ==
    LET res == Outcomes(LAMBDA ub : findRecords(Mem, x[1], x[2], Col(x), v, ub))
    IN  {r.records : r \in {q \in res : q.M.fault = "none"}}

\* C38: every record-id find_records(v) or find_records_in_range(lo, hi)
\* returns on a column is below the column's size, and get of it returns a
\* value equal to v, respectively a value within [lo, hi].
C38_ReturnedIdsMatch ==
    Running => \A x \in Columns :
        /\ \A v \in ValuesOf(Col(x).type) : \A recs \in FindResults(x, v) :
              \A r \in Range(recs) :
                  /\ r \in RecordIds(x)
                  /\ compareValues(GetValue(x, r), v) = 0
        /\ \A lo, hi \in ValuesOf(Col(x).type) :
              compareValues(lo, hi) <= 0 =>
                  \A recs \in RangeResults(x, lo, hi) : \A r \in Range(recs) :
                      /\ r \in RecordIds(x)
                      /\ compareValues(lo, GetValue(x, r)) <= 0
                      /\ compareValues(GetValue(x, r), hi) <= 0

\* C39: a table made again after drop_table, with columns of the same
\* names, never exposes the dropped table's data: a column answers from
\* what was appended to it since it was made and from nothing else. With
\* nothing appended its size is 0, the searches return nothing and sum is 0;
\* after appends get returns the values appended, sum is their sum and the
\* searches return record-ids of these values only.
C39_RecreatedStartsEmpty ==
    Running => \A x \in Columns :
        /\ Size(x) = Len(hist[x])
        /\ \A r \in RecordIds(x) : ValEq(GetValue(x, r), StoredForm(Appended(x, r)))
        /\ sum(Mem, x[1], x[2], Col(x)).value
             = (IF Col(x).type \in {"STRING", "BOOL"} THEN 0 ELSE DoubleSumOf(hist[x], 0))
        /\ \A v \in ValuesOf(Col(x).type) : \A recs \in FindResults(x, v) :
              \A r \in Range(recs) :
                  r \in RecordIds(x) /\ ValEq(StoredForm(Appended(x, r)), v)
        /\ \A lo, hi \in ValuesOf(Col(x).type) :
              compareValues(lo, hi) <= 0 =>
                  \A recs \in RangeResults(x, lo, hi) : \A r \in Range(recs) :
                      /\ r \in RecordIds(x)
                      /\ compareValues(lo, StoredForm(Appended(x, r))) <= 0
                      /\ compareValues(StoredForm(Appended(x, r)), hi) <= 0

\* the column of a table made again holds one record; the data page it
\* shares with the dropped table still has a record of that table in the
\* next slot, and the index file still has the dropped index's root page
C39_Witness ==
    /\ Running
    /\ \E x \in Columns :
          /\ Col(x).type = "INT32"
          /\ Size(x) = 1
          /\ Col(x).root_page_id > 1
          /\ PageImage(Mem, DataKey(x, 0))[2] # 0
          /\ PageImage(Mem, <<IndexFile(x[1], x[2]), 1>>) # ZeroPage

\* the page-ids met from page_id on along next_leaf, as the pages hold it
RECURSIVE LeafIds(_, _, _, _)
LeafIds(M, file, page_id, fuel) ==
    IF page_id = 0 \/ fuel = 0 THEN <<>>
    ELSE <<page_id>> \o LeafIds(M, file, NodeIn(M, file, page_id).next_leaf, fuel - 1)

\* the pages of the index of column x that hold a leaf
LeafPages(x) ==
    {p \in 1..(next_page_id - 1) :
        /\ <<IndexFile(x[1], x[2]), p>> \in DOMAIN content
        /\ NodeIn(Mem, IndexFile(x[1], x[2]), p).is_leaf}

\* C40: find_records_in_range always terminates: after any sequence of
\* inserts and splits the next_leaf chain from any leaf visits no leaf
\* twice and ends at page-id 0, and no range search walks without end.
C40_RangeTerminates ==
    Running => \A x \in Columns :
        /\ \A p \in LeafPages(x) :
              \E walk \in {LeafIds(Mem, IndexFile(x[1], x[2]), p, next_page_id)} :
                  /\ \A i, j \in 1..Len(walk) : walk[i] = walk[j] => i = j
                  /\ NodeIn(Mem, IndexFile(x[1], x[2]), walk[Len(walk)]).next_leaf = 0
        /\ \A lo, hi \in ValuesOf(Col(x).type) :
              compareValues(lo, hi) <= 0 =>
                  \A r \in Outcomes(LAMBDA ub : findRecordsInRange(Mem, x[1], x[2], Col(x),
                                                                  lo, hi, ub)) :
                      r.M.fault # "hung"

====
